---- MODULE Spec2Model ----
(***************************************************************************)
(* Crystal Peak: the aggregation server (index.mjs and its two earlier     *)
(* variants) as a state machine.                                           *)
(*                                                                         *)
(*   Spec       the /api/state and /api/health handlers over the cache,    *)
(*              the clock and several overlapping requests; a build is     *)
(*              one step from the await of buildState() to the response.   *)
(*   SpecFault  Spec plus an unexpected exception inside buildState().     *)
(*   SpecBuild  one request whose seven fetchers settle one by one, for    *)
(*              every upstream behaviour and every credential setting.     *)
(*   SpecFetch  one fetchWithTimeout() call followed by res.json(), with   *)
(*              its AbortController timer; FairFetch adds the fairness     *)
(*              of the event loop.                                         *)
(*                                                                         *)
(* JavaScript null is the empty sequence (None) and a present value v is   *)
(* the one-element sequence <<v>>.                                         *)
(***************************************************************************)
EXTENDS Integers, Sequences, FiniteSets, TLC

VARIABLES
  variant,      \* which server file is running
  env,          \* process.env: which credentials are configured
  alive,        \* the Node process is running
  clock,        \* Date.now(), in milliseconds
  cachedState,  \* let cachedState = null
  cachedAt,     \* let cachedAt = 0
  cacheVer,     \* history: number of writes to the cache so far
  req,          \* the /api/state requests: position, arrival time, response
  health,       \* the last /api/health response sent
  settled,      \* SpecBuild: what each fetcher of the build has settled with
  call,         \* SpecFetch: one fetcher invocation and its fetchWithTimeout
  fnArg,        \* the input handed to the function a specification applies
  fnOut,        \* what the function returned for fnArg (None before the call)
  client        \* SpecClient: the state of the React App component

vars ==
  <<variant, env, alive, clock, cachedState, cachedAt, cacheVer, req, health, settled,
    call, fnArg, fnOut, client>>

----------------------------------------------------------------------------
(* Bounds of the model *)

MaxReq == 2
MaxClock == 90000
TickMs == 30000
MaxFetchClock == 12000
FetchTickMs == 1000
MaxChunks == 2
MaxPeriods == 15
MaxSnowPeriods == 5
MaxFeed == 50
MaxSamples == 3
MaxStations == 8
MaxCalls == 2

(* Program constants *)

CACHE_TTL_MS == 60 * 1000

\* fetchWithTimeout(url, options = {}, timeoutMs = 8000), and the 9000 the
\* avalanche and freezing-level fetchers pass
DefaultTimeoutMs == 8000
LongTimeoutMs == 9000

None == <<>>
Some(x) == <<x>>
IsSome(o) == o # <<>>
Get(o) == o[1]

Variants == {"index", "part_001", "part_000"}

Reqs == 1..MaxReq

----------------------------------------------------------------------------
(* Upstream calls. An outcome is what one fetch() call meets:              *)
(*   ok        a 2xx response whose body is JSON (field data)              *)
(*   non2xx    a response with res.ok false (an error document as body)    *)
(*   neterr    fetch() rejects with a network error                        *)
(*   timeout   the AbortController aborts the call, fetch() rejects        *)
(*   malformed a 2xx response whose body is not JSON, res.json() rejects   *)

FailKinds == {"non2xx", "neterr", "timeout", "malformed"}

Fail(k) == [kind |-> k]
Ok(d) == [kind |-> "ok", data |-> d]

Failures == {Fail(k) : k \in FailKinds}

(* The points document of api.weather.gov: whether properties.forecast and *)
(* properties.forecastHourly are present.                                  *)
PointData ==
  { [forecast |-> TRUE, forecastHourly |-> TRUE],
    [forecast |-> TRUE, forecastHourly |-> FALSE] }

(* A forecast period as the code reads it: isNighttime, temperature (None  *)
(* when not a number) and whether shortForecast matches /snow|flurr/i.     *)
Period(n, t, s) == [isNighttime |-> n, temperature |-> t, snow |-> s]

DayP == Period(FALSE, Some(30), FALSE)
NightP == Period(TRUE, Some(20), TRUE)
SnowDayP == Period(FALSE, Some(28), TRUE)

PeriodSeqs == { <<>>, <<DayP, NightP>>, <<SnowDayP, NightP, DayP>> }

(* shape: "array" when properties.periods is an array, "noPeriods" when    *)
(* properties has no periods, "noProps" when the document has no           *)
(* properties at all.                                                      *)
PeriodsDoc(sh, ps) == [shape |-> sh, periods |-> ps]

DailyData ==
  { PeriodsDoc("array", ps) : ps \in PeriodSeqs } \cup { PeriodsDoc("noProps", <<>>) }

HourlyData ==
  { PeriodsDoc("array", <<SnowDayP, DayP>>), PeriodsDoc("noPeriods", <<>>) }

(* JSON values of the Open-Meteo series. A number is kept in tenths of a   *)
(* metre, so that Math.round has something to round.                       *)
Num(x) == [kind |-> "num", tenths |-> x]
JsonNull == [kind |-> "null"]
NotANumber == [kind |-> "text"]

(* Open-Meteo hourly series: sample i is (time, value); day is the         *)
(* YYYY-MM-DD prefix of a string time (None: time is not a string) and val *)
(* the JSON value of freezing_level_height.                                *)
Sample(d, v) == [day |-> d, val |-> v]

(* data.hourly: time and freezing_level_height, each an array (Some) or    *)
(* not (None).                                                             *)
FreezingSeries(ts, vs) == [time |-> ts, freezing_level_height |-> vs]

FreezingDoc(ok, ss) ==
  IF ok
  THEN FreezingSeries(Some([i \in 1..Len(ss) |-> ss[i].day]),
                      Some([i \in 1..Len(ss) |-> ss[i].val]))
  ELSE FreezingSeries(None, None)

FreezingData ==
  { FreezingDoc(TRUE, <<Sample(Some(2), Num(9000)), Sample(Some(1), Num(15000)),
                        Sample(Some(2), Num(12000)), Sample(None, Num(50)),
                        Sample(Some(3), NotANumber)>>),
    FreezingDoc(FALSE, <<>>) }

(* WSDOT list entries. num: Latitude and Longitude are numbers; tenths:    *)
(* the value haversineMiles() gives for them, in tenths of a mile.         *)
Cam(i, n, m, img) == [CameraID |-> i, num |-> n, tenths |-> m, ImageURL |-> img]
Station(c, n, m) == [StationCode |-> c, num |-> n, tenths |-> m]
Reading(i, t, w, h) == [StationID |-> i, temp |-> t, wind |-> w, humidity |-> h]
Pass(i, n, m) == [MountainPassId |-> i, num |-> n, tenths |-> m]

ListDoc(isArr, xs) == [isArray |-> isArr, items |-> xs]

CameraData ==
  { ListDoc(TRUE, <<Cam(1, TRUE, 120, TRUE), Cam(2, TRUE, 2000, TRUE),
                    Cam(3, FALSE, 0, TRUE), Cam(4, TRUE, 400, FALSE)>>),
    ListDoc(FALSE, <<>>) }

StationData ==
  { ListDoc(TRUE, <<Station(1, TRUE, 100), Station(2, TRUE, 501), Station(3, TRUE, 500)>>),
    ListDoc(TRUE, <<Station(2, TRUE, 2000)>>) }

ReadingData ==
  { ListDoc(TRUE, <<Reading(1, Some(31), None, None), Reading(3, None, None, Some(80))>>),
    ListDoc(FALSE, <<>>) }

PassData ==
  { ListDoc(TRUE, <<Pass(1, TRUE, 800), Pass(2, TRUE, 801), Pass(3, FALSE, 10)>>),
    ListDoc(FALSE, <<>>) }

(* avalanche.org product: danger_level and danger as the code types them.  *)
AvalDoc(l, d) == [level |-> l, danger |-> d]

AvalData == { AvalDoc(Some(3), Some("considerable")), AvalDoc(None, None) }

(* OnTheSnow lifts and trails. strDifficulty: difficulty is a string or    *)
(* falsy, so that .toLowerCase() exists.                                   *)
Lift(i, s) == [id |-> i, status |-> s]
Trail(i, s, sd) == [id |-> i, status |-> s, strDifficulty |-> sd]

LiftData == { ListDoc(TRUE, <<Lift(1, "open"), Lift(2, "unknown")>>) }

TrailData ==
  { ListDoc(TRUE, <<Trail(1, "open", TRUE)>>),
    ListDoc(TRUE, <<Trail(1, "open", FALSE)>>) }

Calls ==
  { "nws.points", "nws.forecast", "nws.hourly", "openmeteo", "wsdot.cameras",
    "wsdot.stations", "wsdot.weather", "wsdot.passes", "avalanche",
    "ots.lifts", "ots.trails" }

DataOf(c) ==
  CASE c = "nws.points" -> PointData
    [] c = "nws.forecast" -> DailyData
    [] c = "nws.hourly" -> HourlyData
    [] c = "openmeteo" -> FreezingData
    [] c = "wsdot.cameras" -> CameraData
    [] c = "wsdot.stations" -> StationData
    [] c = "wsdot.weather" -> ReadingData
    [] c = "wsdot.passes" -> PassData
    [] c = "avalanche" -> AvalData
    [] c = "ots.lifts" -> LiftData
    [] c = "ots.trails" -> TrailData

OutcomesOf(c) == { Ok(d) : d \in DataOf(c) } \cup Failures

----------------------------------------------------------------------------
(* Helpers for JavaScript arrays *)

Min2(a, b) == IF a <= b THEN a ELSE b
Max2(a, b) == IF a >= b THEN a ELSE b

\* A mutant of Slice: nothing is cut off.
SliceKeepsAll(xs, n) == xs

\* xs.slice(0, n)
Slice(xs, n) == SubSeq(xs, 1, Min2(n, Len(xs)))

SetMax(S) == CHOOSE x \in S : \A y \in S : y <= x
SetMin(S) == CHOOSE x \in S : \A y \in S : x <= y

(* What an async function hands to its awaiter: a value, or a rejection.   *)
(* calls is the set of upstream requests it issued on the way.             *)
(* caught: the function's catch block ran (and logged with console.error). *)
Thrown(cs) == [thrown |-> TRUE, calls |-> cs, caught |-> FALSE]
Ret(v, cs) == [thrown |-> FALSE, value |-> v, calls |-> cs, caught |-> FALSE]

\* A mutant of TryCatch: the fetcher without its try/catch.
NoCatch(b, d) == b

\* try { ... } catch (err) { console.error(...); return d; }
TryCatch(b, d) ==
  IF b.thrown THEN [Ret(d, b.calls) EXCEPT !.caught = TRUE] ELSE b

\* fetchWithTimeout rejects: a network error, or the abort of its timer.
Rejects(o) == o.kind \in {"neterr", "timeout"}

\* const res = await fetchWithTimeout(url); if (!res.ok) throw ...;
\* const data = await res.json();  -- any of the three throws
CannotRead(o) == o.kind # "ok"

----------------------------------------------------------------------------
(* fetchFreezingLevelDaily *)

\* Number(v), in tenths; None is NaN. Number(null) is 0.
ToNumber(v) ==
  CASE v.kind = "num" -> Some(v.tenths)
    [] v.kind = "null" -> Some(0)
    [] OTHER -> None

\* Math.round of a value in tenths: halves go up.
Round(x) == (x + 5) \div 10

\* const cur = byDay.get(day) || { max_m: -Infinity, min_m: Infinity };
\* cur.max_m = Math.max(cur.max_m, num); cur.min_m = Math.min(cur.min_m, num);
\* byDay.set(day, cur);  the Map keeps its keys in the order of insertion
ByDaySet(m, day, num) ==
  IF \E k \in 1..Len(m) : m[k].date = day
  THEN [k \in 1..Len(m) |->
          IF m[k].date = day
          THEN [date |-> day, max_m |-> Max2(m[k].max_m, num),
                min_m |-> Min2(m[k].min_m, num)]
          ELSE m[k]]
  ELSE Append(m, [date |-> day, max_m |-> num, min_m |-> num])

\* for (let i = 0; i < times.length; i++) { ... }, from index i with map m
RECURSIVE GroupByDay(_, _, _, _)
GroupByDay(times, vals, i, m) ==
  IF i > Len(times) THEN m
  ELSE LET t == times[i]
           num == ToNumber(vals[i])
       IN IF ~IsSome(t) THEN GroupByDay(times, vals, i + 1, m)
          ELSE IF ~IsSome(num) THEN GroupByDay(times, vals, i + 1, m)
          ELSE GroupByDay(times, vals, i + 1, ByDaySet(m, Get(t), Get(num)))

\* .sort((a, b) => a[0].localeCompare(b[0])): a stable sort by date
RECURSIVE SortByDate(_)
SortByDate(m) ==
  IF m = <<>> THEN <<>>
  ELSE LET rest == SortByDate(Tail(m))
           before == SelectSeq(rest, LAMBDA x : x.date < Head(m).date)
           after == SelectSeq(rest, LAMBDA x : x.date >= Head(m).date)
       IN before \o <<Head(m)>> \o after

\* .map(([date, mm]) => ({ date, max_m: Math.round(mm.max_m), ... }))
\* .filter((d) => d.max_m != null): every entry of the map has a finite max_m
FreezingDaily(times, vals) ==
  LET sorted == SortByDate(GroupByDay(times, vals, 1, <<>>))
  IN [k \in 1..Len(sorted) |->
        [date |-> sorted[k].date,
         max_m |-> Round(sorted[k].max_m),
         min_m |-> Round(sorted[k].min_m)]]

FreezingBody(w) ==
  LET o == w["openmeteo"]
      times == o.data.time
      vals == o.data.freezing_level_height
  IN IF CannotRead(o) THEN Thrown({"openmeteo"})
     ELSE IF ~IsSome(times) \/ ~IsSome(vals) THEN Ret([daily |-> <<>>], {"openmeteo"})
     ELSE IF Len(Get(times)) # Len(Get(vals)) THEN Ret([daily |-> <<>>], {"openmeteo"})
     ELSE Ret([daily |-> FreezingDaily(Get(times), Get(vals))], {"openmeteo"})

fetchFreezingLevelDaily(w) == TryCatch(FreezingBody(w), [daily |-> <<>>])

----------------------------------------------------------------------------
(* fetchNOAAForecast *)

\* dailyPeriods.slice(0, 14).map(...)
DailyOut(ps) ==
  [i \in 1..Len(Slice(ps, 14)) |->
     [hi |-> IF ps[i].isNighttime THEN None ELSE ps[i].temperature,
      lo |-> IF ps[i].isNighttime THEN ps[i].temperature ELSE None,
      snow |-> IF ps[i].snow THEN 1 ELSE 0]]

\* for (let i = 0; i < dailyOut.length; i += 2) groupedDaily.push(...)
GroupedDaily(out) ==
  [k \in 1..((Len(out) + 1) \div 2) |->
     [hi |-> out[2 * k - 1].hi,
      lo |-> IF 2 * k <= Len(out) THEN out[2 * k].lo ELSE None,
      snow |-> out[2 * k - 1].snow + (IF 2 * k <= Len(out) THEN out[2 * k].snow ELSE 0)]]

\* part_000: the reduce() that pushes one entry per even index
ReducedDaily(ps) ==
  LET xs == Slice(ps, 14)
  IN [k \in 1..((Len(xs) + 1) \div 2) |->
        [hi |-> xs[2 * k - 1].temperature,
         lo |-> IF 2 * k <= Len(xs) THEN xs[2 * k].temperature ELSE None,
         snow |-> IF xs[2 * k - 1].snow THEN 1 ELSE 0]]

\* hourlyPeriods.slice(0, 48).map(...); snow is in tenths of an inch
HourlyOut(ps) ==
  [i \in 1..Len(Slice(ps, 48)) |->
     [temp |-> ps[i].temperature, snow |-> IF ps[i].snow THEN 2 ELSE 0]]

\* Array.isArray(doc?.properties?.periods) ? doc.properties.periods : []
PeriodsOrEmpty(doc) == IF doc.shape = "array" THEN doc.periods ELSE <<>>

ForecastCalls(v, pt) ==
  {"nws.points"}
    \cup (IF pt.kind = "ok" /\ pt.data.forecast /\ (v = "part_000" \/ pt.data.forecastHourly)
          THEN {"nws.forecast"} ELSE {})
    \cup (IF pt.kind = "ok" /\ pt.data.forecastHourly /\ (v = "part_000" \/ pt.data.forecast)
          THEN {"nws.hourly"} ELSE {})
    \cup (IF v = "index" /\ pt.kind = "ok" /\ pt.data.forecast /\ pt.data.forecastHourly
          THEN {"openmeteo"} ELSE {})

ForecastValue(v, w) ==
  LET dl == w["nws.forecast"].data
      hr == w["nws.hourly"].data
  IN CASE v = "index" ->
            [hourly |-> HourlyOut(PeriodsOrEmpty(hr)),
             daily |-> GroupedDaily(DailyOut(PeriodsOrEmpty(dl))),
             freezing |-> fetchFreezingLevelDaily(w).value]
       [] v = "part_001" ->
            [hourly |-> HourlyOut(PeriodsOrEmpty(hr)),
             daily |-> GroupedDaily(DailyOut(PeriodsOrEmpty(dl)))]
       [] v = "part_000" ->
            [daily |-> ReducedDaily(dl.periods), hourly |-> HourlyOut(hr.periods)]

ForecastBody(v, w) ==
  LET pt == w["nws.points"]
      dl == w["nws.forecast"]
      hr == w["nws.hourly"]
      cs == ForecastCalls(v, pt)
  IN IF CannotRead(pt) THEN Thrown(cs)
     ELSE IF ~pt.data.forecast \/ ~pt.data.forecastHourly THEN Thrown(cs)
     ELSE IF Rejects(dl) \/ Rejects(hr) THEN Thrown(cs)
     ELSE IF v = "index" /\ fetchFreezingLevelDaily(w).thrown THEN Thrown(cs)
     ELSE IF CannotRead(dl) \/ CannotRead(hr) THEN Thrown(cs)
     ELSE IF v = "part_000" /\ (dl.data.shape = "noProps" \/ hr.data.shape = "noProps")
       THEN Thrown(cs)
     ELSE Ret(ForecastValue(v, w), cs)

ForecastDefault(v) ==
  IF v = "index" THEN [hourly |-> <<>>, daily |-> <<>>, freezing |-> [daily |-> <<>>]]
  ELSE IF v = "part_001" THEN [hourly |-> <<>>, daily |-> <<>>]
  ELSE [daily |-> <<>>, hourly |-> <<>>]

fetchNOAAForecast(v, w) == TryCatch(ForecastBody(v, w), ForecastDefault(v))

----------------------------------------------------------------------------
(* The WSDOT fetchers *)

\* A mutant of Within: the coordinates are typed but the distance is not compared.
WithinAnyDistance(x, r) == x.num

\* typeof lat === 'number' && typeof lon === 'number' && haversineMiles(...) <= r
Within(x, r) == x.num /\ x.tenths <= 10 * r

\* Array.isArray(data) ? data.filter(...).slice(0, n) : []
Nearby(doc, r, n) ==
  IF doc.isArray THEN Slice(SelectSeq(doc.items, LAMBDA x : Within(x, r)), n) ELSE <<>>

\* .slice(0, 16), and .slice(0, 24) in part_001
CamLimit(v) == IF v = "part_001" THEN 24 ELSE 16

HasImage(c) == c.ImageURL

CamerasBody(v, w) ==
  LET o == w["wsdot.cameras"]
      near == IF CannotRead(o) THEN <<>> ELSE Nearby(o.data, 40, CamLimit(v))
      shown == SelectSeq(near, HasImage)
  IN IF CannotRead(o) THEN Thrown({"wsdot.cameras"})
     ELSE Ret([i \in 1..Len(shown) |-> [id |-> shown[i].CameraID,
                                         image |-> shown[i].ImageURL]],
              {"wsdot.cameras"})

fetchWSDOTCameras(v, e, w) ==
  IF ~e.wsdot THEN Ret(<<>>, {}) ELSE TryCatch(CamerasBody(v, w), <<>>)

\* new Map(wx.map((w) => [w.StationID, w])).get(code) || null: the last
\* reading of that station
ReadingOf(doc, code) ==
  LET hits == IF doc.isArray
              THEN { i \in 1..Len(doc.items) : doc.items[i].StationID = code }
              ELSE {}
  IN IF hits = {} THEN None ELSE Some(doc.items[SetMax(hits)])

StationEntry(st, r) ==
  [id |-> st.StationCode,
   temp |-> IF IsSome(r) THEN Get(r).temp ELSE None,
   humidity |-> IF IsSome(r) THEN Get(r).humidity ELSE None,
   wind |-> IF IsSome(r) THEN Get(r).wind ELSE None]

\* A mutant of KeepStation: stations without a reading are kept too.
KeepAnyStation(v, x) == TRUE

\* .filter((w) => w.temp != null || w.wind != null), and in part_001
\* || w.humidity != null
KeepStation(v, x) ==
  IsSome(x.temp) \/ IsSome(x.wind) \/ (v = "part_001" /\ IsSome(x.humidity))

WeatherBody(v, w) ==
  LET so == w["wsdot.stations"]
      wo == w["wsdot.weather"]
      near == IF CannotRead(so) THEN <<>> ELSE Nearby(so.data, 50, 6)
      all == [i \in 1..Len(near) |-> StationEntry(near[i], ReadingOf(wo.data, near[i].StationCode))]
  IN IF CannotRead(so) THEN Thrown({"wsdot.stations"})
     ELSE IF Len(near) = 0 THEN Ret(<<>>, {"wsdot.stations"})
     ELSE IF CannotRead(wo) THEN Thrown({"wsdot.stations", "wsdot.weather"})
     ELSE Ret(SelectSeq(all, LAMBDA x : KeepStation(v, x)),
              {"wsdot.stations", "wsdot.weather"})

fetchWSDOTWeatherStations(v, e, w) ==
  IF ~e.wsdot THEN Ret(<<>>, {}) ELSE TryCatch(WeatherBody(v, w), <<>>)

PassesBody(w) ==
  LET o == w["wsdot.passes"]
      near == IF CannotRead(o) THEN <<>> ELSE Nearby(o.data, 80, 10)
  IN IF CannotRead(o) THEN Thrown({"wsdot.passes"})
     ELSE Ret([passes |-> [i \in 1..Len(near) |-> [id |-> near[i].MountainPassId]]],
              {"wsdot.passes"})

fetchPassConditions(e, w) ==
  IF ~e.wsdot THEN Ret([passes |-> <<>>], {})
  ELSE TryCatch(PassesBody(w), [passes |-> <<>>])

----------------------------------------------------------------------------
(* fetchAvalancheData, fetchLiftStatus, fetchRunStatus *)

AvalancheBody(w) ==
  LET o == w["avalanche"]
  IN IF CannotRead(o) THEN Thrown({"avalanche"})
     ELSE Ret(Some([level |-> o.data.level, danger |-> o.data.danger]), {"avalanche"})

\* A mutant of fetchAvalancheData: on failure an object of nulls, not null.
AvalancheNullFilled(w) ==
  TryCatch(AvalancheBody(w), Some([level |-> None, danger |-> None]))

fetchAvalancheData(w) == TryCatch(AvalancheBody(w), None)

\* A mutant of NoOts: only the key is looked at.
NoOtsKeyOnly(e) == ~e.otsKey

\* !OTS_API_KEY || !OTS_RESORT_ID
NoOts(e) == ~e.otsKey \/ ~e.otsResort

ItemsOf(doc) == IF doc.isArray THEN doc.items ELSE <<>>

LiftsBody(w) ==
  LET o == w["ots.lifts"]
  IN IF CannotRead(o) THEN Thrown({"ots.lifts"})
     ELSE Ret([i \in 1..Len(ItemsOf(o.data)) |->
                 [id |-> ItemsOf(o.data)[i].id, status |-> ItemsOf(o.data)[i].status]],
              {"ots.lifts"})

fetchLiftStatus(e, w) ==
  IF NoOts(e) THEN Ret(<<>>, {}) ELSE TryCatch(LiftsBody(w), <<>>)

\* (r?.difficulty || '').toLowerCase() is a TypeError for a difficulty that
\* is truthy and not a string
RunsBody(w) ==
  LET o == w["ots.trails"]
  IN IF CannotRead(o) THEN Thrown({"ots.trails"})
     ELSE IF \E i \in 1..Len(ItemsOf(o.data)) : ~ItemsOf(o.data)[i].strDifficulty
       THEN Thrown({"ots.trails"})
     ELSE Ret([i \in 1..Len(ItemsOf(o.data)) |->
                 [id |-> ItemsOf(o.data)[i].id, status |-> ItemsOf(o.data)[i].status]],
              {"ots.trails"})

fetchRunStatus(e, w) ==
  IF NoOts(e) THEN Ret(<<>>, {}) ELSE TryCatch(RunsBody(w), <<>>)

----------------------------------------------------------------------------
(* calcSnowFromForecast and buildState *)

RECURSIVE SumSnow(_)
SumSnow(ds) == IF ds = <<>> THEN 0 ELSE ds[1].snow + SumSnow(Tail(ds))

\* A mutant of calcSnowFromForecast: only the first day decides.
calcSnowFirstDayOnly(forecast, t) ==
  LET next2Days == Slice(forecast.daily, 2)
      new24h == IF Len(next2Days) > 0 THEN next2Days[1].snow ELSE 0
  IN IF new24h <= 0 THEN None
     ELSE Some([new24h |-> new24h, new48h |-> SumSnow(next2Days), updated |-> t])

calcSnowFromForecast(forecast, t) ==
  LET next2Days == Slice(forecast.daily, 2)
      new48h == SumSnow(next2Days)
      new24h == IF Len(next2Days) > 0 THEN next2Days[1].snow ELSE 0
  IN IF new24h <= 0 /\ new48h <= 0 THEN None
     ELSE Some([new24h |-> new24h, new48h |-> new48h, updated |-> t])

\* const staticCams = [...], and getCams() in part_000
StaticCams(v) ==
  IF v = "part_000"
  THEN << [static |-> "crystal-summit-360"], [static |-> "crystal-webcams"],
          [static |-> "sr410-route"], [static |-> "sr410-crystal-greenwater"] >>
  ELSE << [static |-> "crystal-summit-360"], [static |-> "crystal-webcams"] >>

Fetchers ==
  {"forecast", "cams", "weather", "roads", "aval", "lifts", "runs"}

\* The promises buildState awaits; part_000 awaits the forecast alone.
Awaited(v) == IF v = "part_000" THEN {"forecast"} ELSE Fetchers

RunFetcher(f, v, e, w) ==
  CASE f = "forecast" -> fetchNOAAForecast(v, w)
    [] f = "cams" -> fetchWSDOTCameras(v, e, w)
    [] f = "weather" -> fetchWSDOTWeatherStations(v, e, w)
    [] f = "roads" -> fetchPassConditions(e, w)
    [] f = "aval" -> fetchAvalancheData(w)
    [] f = "lifts" -> fetchLiftStatus(e, w)
    [] f = "runs" -> fetchRunStatus(e, w)

\* The snapshot object of buildState, from the settled fetchers' values rs.
Assemble(v, rs, t) ==
  IF v = "part_000"
  THEN [generatedAt |-> t, FORECAST |-> rs["forecast"].value, CAMS |-> StaticCams(v),
        WEATHER |-> <<>>, ROADS |-> [passes |-> <<>>], AVAL |-> None, SNOW |-> None,
        LIFTS |-> <<>>, RUNS |-> <<>>]
  ELSE [generatedAt |-> t, FORECAST |-> rs["forecast"].value,
        CAMS |-> StaticCams(v) \o rs["cams"].value,
        WEATHER |-> rs["weather"].value, ROADS |-> rs["roads"].value,
        AVAL |-> rs["aval"].value,
        SNOW |-> calcSnowFromForecast(rs["forecast"].value, t),
        LIFTS |-> rs["lifts"].value, RUNS |-> rs["runs"].value]

\* await Promise.all([...]) rejects as soon as one of its promises rejects.
Settle(v, rs, t) ==
  LET cs == UNION { rs[f].calls : f \in Awaited(v) }
  IN IF \E f \in Awaited(v) : rs[f].thrown THEN Thrown(cs)
     ELSE Ret(Assemble(v, rs, t), cs)

buildState(v, e, w, t) ==
  Settle(v, [f \in Awaited(v) |-> RunFetcher(f, v, e, w)], t)

----------------------------------------------------------------------------
(* The upstream behaviours the requests of Spec meet during one build *)

Nominal(c) ==
  CASE c = "nws.points" -> [forecast |-> TRUE, forecastHourly |-> TRUE]
    [] c = "nws.forecast" -> PeriodsDoc("array", <<SnowDayP, NightP, DayP>>)
    [] c = "nws.hourly" -> PeriodsDoc("array", <<SnowDayP, DayP>>)
    [] c = "openmeteo" -> FreezingDoc(TRUE, <<Sample(Some(1), Num(15000))>>)
    [] c = "wsdot.cameras" -> ListDoc(TRUE, <<Cam(1, TRUE, 120, TRUE)>>)
    [] c = "wsdot.stations" -> ListDoc(TRUE, <<Station(1, TRUE, 100)>>)
    [] c = "wsdot.weather" -> ListDoc(TRUE, <<Reading(1, Some(31), None, None)>>)
    [] c = "wsdot.passes" -> ListDoc(TRUE, <<Pass(1, TRUE, 800)>>)
    [] c = "avalanche" -> AvalDoc(Some(3), Some("considerable"))
    [] c = "ots.lifts" -> ListDoc(TRUE, <<Lift(1, "open")>>)
    [] c = "ots.trails" -> ListDoc(TRUE, <<Trail(1, "open", TRUE)>>)

WorldOk == [c \in Calls |-> Ok(Nominal(c))]
WorldDown == [c \in Calls |-> Fail("neterr")]

Worlds == {WorldOk, WorldDown}

Envs == [wsdot : BOOLEAN, otsKey : BOOLEAN, otsResort : BOOLEAN]

\* The two settings Spec runs under: every credential set, and none.
EnvAll == [wsdot |-> TRUE, otsKey |-> TRUE, otsResort |-> TRUE]
EnvNone == [wsdot |-> FALSE, otsKey |-> FALSE, otsResort |-> FALSE]

----------------------------------------------------------------------------
(* The handlers *)

\* A mutant of CacheHit: a cached snapshot never expires.
CacheHitNeverExpires(cs, at, now) == IsSome(cs)

\* A mutant of CacheHit: the comparison the wrong way round.
CacheHitInverted(cs, at, now) == IsSome(cs) /\ now - at > CACHE_TTL_MS

\* A mutant of CacheHit: the entry is served for twice the time to live.
CacheHitTwiceAsLong(cs, at, now) == IsSome(cs) /\ now - at < 2 * CACHE_TTL_MS

\* if (cachedState && now - cachedAt < CACHE_TTL_MS)
CacheHit(cs, at, now) == IsSome(cs) /\ now - at < CACHE_TTL_MS

\* A mutant of Served: the handler stamps the snapshot again as it serves it.
ServedRestamped(cs, now) == Some([Get(cs) EXCEPT !.generatedAt = now])

\* return res.json(cachedState);
Served(cs, now) == cs

\* A mutant of StoredAt: the cache keeps the timestamp of its first entry.
StoredAtFirstOnly(now, t) == 0

\* cachedAt = now;  now is the request's arrival time, t the time of the write
StoredAt(now, t) == now

\* A mutant of FirstWave: the fetchers are awaited one after the other.
FirstWaveOneByOne(v, e) == {"nws.points"}

\* The upstream requests issued before buildState() first yields: every
\* fetcher runs up to its first await.
FirstWave(v, e) ==
  {"nws.points"}
    \cup (IF v # "part_000" /\ e.wsdot
          THEN {"wsdot.cameras", "wsdot.stations", "wsdot.passes"} ELSE {})
    \cup (IF v # "part_000" THEN {"avalanche"} ELSE {})
    \cup (IF v # "part_000" /\ ~NoOts(e) THEN {"ots.lifts", "ots.trails"} ELSE {})

\* try { ... } catch (err) { ... res.status(500).json(...) }; part_000 has none
HasCatch(v) == v # "part_000"

ErrorBody == [error |-> "Failed to build state"]

(* What becomes of a rejected handler promise nobody catches: Express 4    *)
(* leaves the request unanswered and Node either only warns ("hang") or    *)
(* ends the process ("crash"); Express 5 passes it to its default error    *)
(* handler, which answers 500 with a page that is not { error }.           *)
UnhandledOutcomes == {"hang", "crash", "framework500"}

\* A promise that has not settled yet.
Pending == [thrown |-> FALSE, pending |-> TRUE, calls |-> {}, caught |-> FALSE]

\* const [data, setData] = useState(null); const [dataLoading, ...] =
\* useState(true); const [dataErr, setDataErr] = useState(null); calls is the
\* number of /api/state calls in flight, last the outcome of the call that
\* completed most recently and got the snapshot it received (None: none).
\* const [page, setPage] = useState('home'); guardDue says that data or page
\* has changed and the effect that depends on them has not run yet, and
\* resetFrom is the page the effect last left for home (None: never).
NoClient ==
  [data |-> None, dataLoading |-> TRUE, dataErr |-> None, calls |-> 0,
   last |-> "none", got |-> None, page |-> "home", guardDue |-> FALSE,
   resetFrom |-> None]

\* A fetcher invocation that has not started, its timeout being ms.
NoCall(ms) ==
  [pc |-> "idle", timeoutMs |-> ms, timer |-> FALSE, deadline |-> 0,
   chunks |-> 0, result |-> None]

Idle ==
  [pc |-> "idle", now |-> 0, calls |-> {}, status |-> 0, body |-> None,
   hit |-> FALSE, ver |-> 0, seen |-> None, threw |-> FALSE]

Respond(q, st, b) == [q EXCEPT !.pc = "done", !.status = st, !.body = b]

\* app.get('/api/state'), up to the response of a hit or the await of a miss
Arrive(r) ==
  /\ alive
  /\ req[r].pc = "idle"
  /\ \A q \in Reqs : q < r => req[q].pc # "idle"
  /\ LET now == clock
         q == [req[r] EXCEPT !.now = now, !.ver = cacheVer,
                           !.seen = IF IsSome(cachedState)
                                    THEN Some(Get(cachedState).generatedAt) ELSE None]
     IN IF CacheHit(cachedState, cachedAt, now)
        THEN req' = [req EXCEPT ![r] = Respond([q EXCEPT !.hit = TRUE], 200, Served(cachedState, now))]
        ELSE req' = [req EXCEPT ![r] = [q EXCEPT !.pc = "building",
                                                 !.calls = FirstWave(variant, env)]]
  /\ UNCHANGED <<variant, env, alive, clock, cachedState, cachedAt, cacheVer, health, settled, call, fnArg, fnOut, client>>

\* A mutant of Store: the snapshot is written and the handler yields before
\* it writes the timestamp.
StoreStateOnly(r, b) ==
  /\ cachedState' = Some(b.value)
  /\ cacheVer' = cacheVer + 1
  /\ req' = [req EXCEPT ![r] =
               Respond([@ EXCEPT !.calls = b.calls, !.ver = cacheVer + 1],
                       200, Some(b.value))]
  /\ UNCHANGED <<alive, cachedAt>>

\* cachedState = state; cachedAt = now; return res.json(state);
Store(r, b) ==
  /\ cachedState' = Some(b.value)
  /\ cachedAt' = StoredAt(req[r].now, clock)
  /\ cacheVer' = cacheVer + 1
  /\ req' = [req EXCEPT ![r] =
               Respond([@ EXCEPT !.calls = b.calls, !.ver = cacheVer + 1],
                       200, Some(b.value))]
  /\ UNCHANGED alive

\* catch (err) { return res.status(500).json({ error: 'Failed to build state' }); }
Caught(r, b) ==
  /\ req' = [req EXCEPT ![r] =
               Respond([@ EXCEPT !.calls = b.calls, !.threw = TRUE],
                       500, Some(ErrorBody))]
  /\ UNCHANGED <<alive, cachedState, cachedAt, cacheVer>>

Unhandled(r, b) ==
  /\ \E o \in UnhandledOutcomes :
       /\ alive' = (o # "crash")
       /\ req' = [req EXCEPT ![r] =
                    IF o = "framework500"
                    THEN Respond([@ EXCEPT !.calls = b.calls, !.threw = TRUE],
                                 500, Some([page |-> "Internal Server Error"]))
                    ELSE [@ EXCEPT !.pc = "lost", !.calls = b.calls, !.threw = TRUE]]
  /\ UNCHANGED <<cachedState, cachedAt, cacheVer>>

\* The handler from the point where await buildState() settles with b.
Finish(r, b) ==
  IF ~b.thrown THEN Store(r, b)
  ELSE IF HasCatch(variant) THEN Caught(r, b)
  ELSE Unhandled(r, b)

BuildDone(r) ==
  /\ alive
  /\ req[r].pc = "building"
  /\ \E w \in Worlds : Finish(r, buildState(variant, env, w, clock))
  /\ UNCHANGED <<variant, env, clock, health, settled, call, fnArg, fnOut, client>>

\* An exception nobody expected, thrown while the snapshot is assembled.
BuildThrows(r) ==
  /\ alive
  /\ req[r].pc = "building"
  /\ Finish(r, Thrown(req[r].calls))
  /\ UNCHANGED <<variant, env, clock, health, settled, call, fnArg, fnOut, client>>

\* A mutant of Health: the health route drops the cached snapshot.
HealthResetsCache ==
  /\ alive
  /\ health' = Some([ok |-> TRUE, time |-> clock])
  /\ cachedState' = None
  /\ cachedAt' = 0
  /\ UNCHANGED <<variant, env, alive, clock, cacheVer, req, settled, call, fnArg, fnOut, client>>

\* app.get('/api/health')
Health ==
  /\ alive
  /\ health' = Some([ok |-> TRUE, time |-> clock])
  /\ UNCHANGED <<variant, env, alive, clock, cachedState, cachedAt, cacheVer, req, settled, call, fnArg, fnOut, client>>

Tick ==
  /\ clock + TickMs <= MaxClock
  /\ clock' = clock + TickMs
  /\ UNCHANGED <<variant, env, alive, cachedState, cachedAt, cacheVer, req, health, settled, call, fnArg, fnOut, client>>

Init ==
  /\ variant \in Variants
  /\ env \in {EnvAll, EnvNone}
  /\ alive = TRUE
  /\ clock = 0
  /\ cachedState = None
  /\ cachedAt = 0
  /\ cacheVer = 0
  /\ req = [r \in Reqs |-> Idle]
  /\ health = None
  /\ settled = [f \in Fetchers |-> Pending]
  /\ call = NoCall(DefaultTimeoutMs)
  /\ fnArg = None
  /\ fnOut = None
  /\ client = NoClient

Next ==
  \/ \E r \in Reqs : Arrive(r)
  \/ \E r \in Reqs : BuildDone(r)
  \/ Health
  \/ Tick

Spec == Init /\ [][Next]_vars

NextFault ==
  \/ Next
  \/ \E r \in Reqs : BuildThrows(r)

SpecFault == Init /\ [][NextFault]_vars

----------------------------------------------------------------------------
(* SpecBuild: one request, its fetchers settling one by one, each against  *)
(* every behaviour of its upstream calls.                                  *)

CallsOf(f) ==
  CASE f = "forecast" -> {"nws.points", "nws.forecast", "nws.hourly", "openmeteo"}
    [] f = "cams" -> {"wsdot.cameras"}
    [] f = "weather" -> {"wsdot.stations", "wsdot.weather"}
    [] f = "roads" -> {"wsdot.passes"}
    [] f = "aval" -> {"avalanche"}
    [] f = "lifts" -> {"ots.lifts"}
    [] f = "runs" -> {"ots.trails"}

\* The behaviours of the upstream calls of fetcher f, one outcome per call.
WorldsOf(f) ==
  CASE f = "forecast" ->
         { [c \in CallsOf(f) |->
              CASE c = "nws.points" -> a [] c = "nws.forecast" -> b
                [] c = "nws.hourly" -> h [] c = "openmeteo" -> z] :
           a \in OutcomesOf("nws.points"), b \in OutcomesOf("nws.forecast"),
           h \in OutcomesOf("nws.hourly"), z \in OutcomesOf("openmeteo") }
    [] f = "weather" ->
         { [c \in CallsOf(f) |-> IF c = "wsdot.stations" THEN a ELSE b] :
           a \in OutcomesOf("wsdot.stations"), b \in OutcomesOf("wsdot.weather") }
    [] OTHER ->
         { [c \in CallsOf(f) |-> a] : a \in UNION { OutcomesOf(c) : c \in CallsOf(f) } }

\* What fetcher f can settle with, over every behaviour of its upstream.
Settlements ==
  UNION { { <<f, v, e, RunFetcher(f, v, e, w)>> : w \in WorldsOf(f) } :
          f \in Fetchers, v \in Variants, e \in Envs }

IsPending(x) == "pending" \in DOMAIN x

\* One of the promises given to Promise.all settles.
FetcherSettles(f) ==
  /\ req[1].pc = "building"
  /\ f \in Awaited(variant)
  /\ IsPending(settled[f])
  /\ \E x \in Settlements :
       /\ x[1] = f /\ x[2] = variant /\ x[3] = env
       /\ settled' = [settled EXCEPT ![f] = x[4]]
  /\ UNCHANGED <<variant, env, alive, clock, cachedState, cachedAt, cacheVer, req, health, call, fnArg, fnOut, client>>

\* A mutant of BuildSettles: the handler goes on as soon as the forecast has
\* settled, taking the default of every fetcher that is still in flight.
BuildSettlesEarly ==
  /\ req[1].pc = "building"
  /\ ~IsPending(settled["forecast"])
  /\ Finish(1, Settle(variant,
                      [f \in Fetchers |->
                         IF IsPending(settled[f])
                         THEN RunFetcher(f, variant, env, WorldDown) ELSE settled[f]],
                      clock))
  /\ UNCHANGED <<variant, env, clock, health, settled, call, fnArg, fnOut, client>>

\* Promise.all settles: every promise is fulfilled, or one has rejected; the
\* handler goes on from its await.
BuildSettles ==
  /\ req[1].pc = "building"
  /\ \/ \A f \in Awaited(variant) : ~IsPending(settled[f])
     \/ \E f \in Awaited(variant) : settled[f].thrown
  /\ Finish(1, Settle(variant, settled, clock))
  /\ UNCHANGED <<variant, env, clock, health, settled, call, fnArg, fnOut, client>>

InitBuild ==
  /\ variant \in Variants
  /\ env \in Envs
  /\ alive = TRUE
  /\ clock = 0
  /\ cachedState = None
  /\ cachedAt = 0
  /\ cacheVer = 0
  /\ req = [r \in Reqs |-> Idle]
  /\ health = None
  /\ settled = [f \in Fetchers |-> Pending]
  /\ call = NoCall(DefaultTimeoutMs)
  /\ fnArg = None
  /\ fnOut = None
  /\ client = NoClient

NextBuild ==
  \/ Arrive(1)
  \/ \E f \in Fetchers : FetcherSettles(f)
  \/ BuildSettles

SpecBuild == InitBuild /\ [][NextBuild]_vars

----------------------------------------------------------------------------
(* SpecFetch: one fetcher invocation, from its call of fetchWithTimeout to *)
(* its return, against an upstream that may answer, fail, stay silent, or  *)
(* send the headers and then the body as slowly as it likes.               *)
(*   idle      not started                                                *)
(*   fetching  await fetch(url, { signal }); the abort timer is armed      *)
(*   reading   await res.json(); the timer was cleared by the finally      *)
(*   returned  the fetcher has returned its value or its default           *)

\* return <value>, or catch (err) { console.error(..., err); return <default>; }
\* logged is the error the catch block logs ("none" when nothing was thrown).
Returned(c, v, err) ==
  [c EXCEPT !.pc = "returned", !.timer = FALSE,
            !.result = Some([value |-> v, logged |-> err])]

\* const timer = setTimeout(() => controller.abort(), timeoutMs); fetch(...)
StartFetch ==
  /\ call.pc = "idle"
  /\ call' = [call EXCEPT !.pc = "fetching", !.timer = TRUE,
                          !.deadline = clock + call.timeoutMs]
  /\ UNCHANGED <<variant, env, alive, clock, cachedState, cachedAt, cacheVer, req,
                 health, settled,
                 fnArg, fnOut, client>>

\* The response headers arrive: fetch() resolves, finally { clearTimeout(timer) }
\* runs, and the fetcher goes on to if (!res.ok) throw ...; await res.json()
HeadersArrive(ok) ==
  /\ call.pc = "fetching"
  /\ call.timer
  /\ call' = IF ok THEN [call EXCEPT !.pc = "reading", !.timer = FALSE]
             ELSE Returned(call, "default", "non2xx")
  /\ UNCHANGED <<variant, env, alive, clock, cachedState, cachedAt, cacheVer, req,
                 health, settled,
                 fnArg, fnOut, client>>

\* fetch() rejects with a network error; the fetcher's catch returns the default
NetworkError ==
  /\ call.pc = "fetching"
  /\ call' = Returned(call, "default", "neterr")
  /\ UNCHANGED <<variant, env, alive, clock, cachedState, cachedAt, cacheVer, req,
                 health, settled,
                 fnArg, fnOut, client>>

\* The timer fires: controller.abort() rejects the pending fetch()
TimerFires ==
  /\ call.timer
  /\ clock >= call.deadline
  /\ call.pc = "fetching"
  /\ call' = Returned(call, "default", "abort")
  /\ UNCHANGED <<variant, env, alive, clock, cachedState, cachedAt, cacheVer, req,
                 health, settled,
                 fnArg, fnOut, client>>

\* A piece of the body arrives while res.json() is reading it
BodyChunk ==
  /\ call.pc = "reading"
  /\ call.chunks < MaxChunks
  /\ call' = [call EXCEPT !.chunks = @ + 1]
  /\ UNCHANGED <<variant, env, alive, clock, cachedState, cachedAt, cacheVer, req,
                 health, settled,
                 fnArg, fnOut, client>>

\* The body ends: res.json() resolves (the fetcher returns its value) or
\* rejects on a body that is not JSON (the catch returns the default)
BodyEnds(json) ==
  /\ call.pc = "reading"
  /\ call' = IF json THEN Returned(call, "value", "none")
             ELSE Returned(call, "default", "malformed")
  /\ UNCHANGED <<variant, env, alive, clock, cachedState, cachedAt, cacheVer, req,
                 health, settled,
                 fnArg, fnOut, client>>

\* The connection breaks while the body is read: res.json() rejects
BodyFails ==
  /\ call.pc = "reading"
  /\ call' = Returned(call, "default", "reset")
  /\ UNCHANGED <<variant, env, alive, clock, cachedState, cachedAt, cacheVer, req,
                 health, settled,
                 fnArg, fnOut, client>>

\* Time passes; an armed timer fires no later than its deadline.
FetchTick ==
  /\ clock < MaxFetchClock
  /\ call.timer => clock < call.deadline
  /\ clock' = LET t == Min2(clock + FetchTickMs, MaxFetchClock)
              IN IF call.timer THEN Min2(t, call.deadline) ELSE t
  /\ UNCHANGED <<variant, env, alive, cachedState, cachedAt, cacheVer, req, health,
                 settled, call, fnArg, fnOut, client>>

InitFetch ==
  /\ variant = "index"
  /\ env = EnvAll
  /\ alive = TRUE
  /\ clock = 0
  /\ cachedState = None
  /\ cachedAt = 0
  /\ cacheVer = 0
  /\ req = [r \in Reqs |-> Idle]
  /\ health = None
  /\ settled = [f \in Fetchers |-> Pending]
  /\ call \in { NoCall(ms) : ms \in {DefaultTimeoutMs, LongTimeoutMs} }
  /\ fnArg = None
  /\ fnOut = None
  /\ client = NoClient

NextFetch ==
  \/ StartFetch
  \/ \E ok \in BOOLEAN : HeadersArrive(ok)
  \/ NetworkError
  \/ TimerFires
  \/ BodyChunk
  \/ \E json \in BOOLEAN : BodyEnds(json)
  \/ BodyFails
  \/ FetchTick

SpecFetch == InitFetch /\ [][NextFetch]_vars

\* The event loop runs a due timer, and time does not stop; nothing obliges
\* the upstream to send anything.
FairFetch == SpecFetch /\ WF_vars(TimerFires) /\ WF_vars(FetchTick)

----------------------------------------------------------------------------
(* SpecPair: fetchNOAAForecast applied to a daily forecast feed that       *)
(* alternates day and night periods, of every length up to MaxPeriods and  *)
(* starting with either kind; the other upstream calls answer nominally.   *)

\* Period i of an alternating feed whose first period is a night one iff sn.
AltPeriod(i, sn) ==
  LET night == IF sn THEN i % 2 = 1 ELSE i % 2 = 0
  IN Period(night, Some(IF night THEN 10 + i ELSE 30 + i), FALSE)

AltSeq(n, sn) == [i \in 1..n |-> AltPeriod(i, sn)]

AltSeqs == { AltSeq(n, sn) : n \in 0..MaxPeriods, sn \in BOOLEAN }

PairWorld(ps) == [WorldOk EXCEPT !["nws.forecast"] = Ok(PeriodsDoc("array", ps))]

\* const forecast = await fetchNOAAForecast();  FORECAST.daily of the result
GroupDaily ==
  /\ fnOut = None
  /\ fnOut' = Some(fetchNOAAForecast(variant, PairWorld(Get(fnArg))).value.daily)
  /\ UNCHANGED <<variant, env, alive, clock, cachedState, cachedAt, cacheVer, req,
                 health, settled, call, fnArg, client>>

InitPair ==
  /\ variant \in Variants
  /\ env = EnvAll
  /\ alive = TRUE
  /\ clock = 0
  /\ cachedState = None
  /\ cachedAt = 0
  /\ cacheVer = 0
  /\ req = [r \in Reqs |-> Idle]
  /\ health = None
  /\ settled = [f \in Fetchers |-> Pending]
  /\ call = NoCall(DefaultTimeoutMs)
  /\ fnArg \in { Some(ps) : ps \in AltSeqs }
  /\ fnOut = None
  /\ client = NoClient

NextPair == GroupDaily

SpecPair == InitPair /\ [][NextPair]_vars

----------------------------------------------------------------------------
(* SpecNear: fetchWSDOTWeatherStations applied to station lists that hold  *)
(* a station 0.1 miles away (code 1), a station 200 miles away (code 2)    *)
(* and stations 45 miles away (codes above 10), in every order; the        *)
(* weather feed has a reading for each station 45 miles away and, when     *)
(* fnArg.reading, a temperature reading for station 1.                     *)

StationAt(i, pn, pf) ==
  IF i = pn THEN Station(1, TRUE, 1)
  ELSE IF i = pf THEN Station(2, TRUE, 2000)
  ELSE Station(10 + i, TRUE, 450)

StationLists ==
  { [i \in 1..n |-> StationAt(i, pn, pf)] :
      <<n, pn, pf>> \in { t \in (2..MaxStations) \X (1..MaxStations) \X (1..MaxStations) :
                          t[2] <= t[1] /\ t[3] <= t[1] /\ t[2] # t[3] } }

ReadingsFor(withNear) ==
  (IF withNear THEN << Reading(1, Some(31), None, None) >> ELSE << >>)
    \o [i \in 1..MaxStations |-> Reading(10 + i, Some(25), Some(4), None)]

NearWorld(a) ==
  [WorldOk EXCEPT !["wsdot.stations"] = Ok(ListDoc(TRUE, a.stations)),
                  !["wsdot.weather"] = Ok(ListDoc(TRUE, ReadingsFor(a.reading)))]

\* const weather = await fetchWSDOTWeatherStations();
FilterStations ==
  /\ fnOut = None
  /\ fnOut' = Some(fetchWSDOTWeatherStations(variant, env, NearWorld(Get(fnArg))).value)
  /\ UNCHANGED <<variant, env, alive, clock, cachedState, cachedAt, cacheVer, req,
                 health, settled, call, fnArg, client>>

InitNear ==
  /\ variant \in {"index", "part_001"}
  /\ env = EnvAll
  /\ alive = TRUE
  /\ clock = 0
  /\ cachedState = None
  /\ cachedAt = 0
  /\ cacheVer = 0
  /\ req = [r \in Reqs |-> Idle]
  /\ health = None
  /\ settled = [f \in Fetchers |-> Pending]
  /\ call = NoCall(DefaultTimeoutMs)
  /\ fnArg \in { Some([stations |-> l, reading |-> b]) : l \in StationLists, b \in BOOLEAN }
  /\ fnOut = None
  /\ client = NoClient

NextNear == FilterStations

SpecNear == InitNear /\ [][NextNear]_vars

----------------------------------------------------------------------------
(* SpecIso: buildState run twice over the same upstream answers, once with *)
(* every call succeeding and once with the single call fnArg.fails failing *)
(* in the way fnArg.kind; fnOut holds the two snapshots.                   *)

FailOne(w, c, k) == [w EXCEPT ![c] = Fail(k)]

\* const state = await buildState();  under both behaviours of the upstream
BuildBothWays ==
  /\ fnOut = None
  /\ LET a == Get(fnArg)
     IN fnOut' = Some([good |-> buildState(variant, env, WorldOk, clock).value,
                       bad |-> buildState(variant, env,
                                          FailOne(WorldOk, a.fails, a.kind), clock).value])
  /\ UNCHANGED <<variant, env, alive, clock, cachedState, cachedAt, cacheVer, req,
                 health, settled, call, fnArg, client>>

InitIso ==
  /\ variant \in Variants
  /\ env = EnvAll
  /\ alive = TRUE
  /\ clock = 0
  /\ cachedState = None
  /\ cachedAt = 0
  /\ cacheVer = 0
  /\ req = [r \in Reqs |-> Idle]
  /\ health = None
  /\ settled = [f \in Fetchers |-> Pending]
  /\ call = NoCall(DefaultTimeoutMs)
  /\ fnArg \in { Some([fails |-> c, kind |-> k]) : c \in Calls, k \in FailKinds }
  /\ fnOut = None
  /\ client = NoClient

NextIso == BuildBothWays

SpecIso == InitIso /\ [][NextIso]_vars

----------------------------------------------------------------------------
(* SpecClient: the App component of the client. refresh() runs on mount,   *)
(* every 120 s and on Retry, so calls of /api/state can overlap; each      *)
(* completes with a snapshot or fails (network error, non-2xx status, a    *)
(* body that is not JSON).                                                 *)

WorldWindy ==
  [WorldOk EXCEPT !["wsdot.weather"] =
                    Ok(ListDoc(TRUE, <<Reading(1, None, Some(12), None)>>))]

WorldDry == [WorldOk EXCEPT !["nws.forecast"] = Ok(PeriodsDoc("array", <<DayP>>))]

\* Snapshots the server can answer with.
ClientSnapshots ==
  { buildState("index", e, w, 0).value :
      e \in {EnvAll, EnvNone, [EnvAll EXCEPT !.otsKey = FALSE]},
      w \in {WorldOk, WorldDown, WorldWindy, WorldDry} }

ClientFailures == {"neterr", "non2xx", "malformed"}

\* err.message of the error refresh() catches
ErrMessage(k) ==
  CASE k = "neterr" -> "Failed to fetch"
    [] k = "non2xx" -> "API 500"
    [] k = "malformed" -> "Unexpected token"

\* A mutant of NavSections: the wind section is offered with any station.
NavWindWithAnyStation(data) ==
  IF ~IsSome(data) THEN {"home", "info"}
  ELSE LET d == Get(data)
       IN {"home", "info"}
            \cup (IF d.CAMS # <<>> THEN {"cams"} ELSE {})
            \cup (IF d.FORECAST.daily # <<>> THEN {"forecast"} ELSE {})
            \cup (IF d.LIFTS # <<>> THEN {"lifts"} ELSE {})
            \cup (IF d.RUNS # <<>> THEN {"runs"} ELSE {})
            \cup (IF d.SNOW # None THEN {"snow"} ELSE {})
            \cup (IF d.WEATHER # <<>> THEN {"temps", "wind"} ELSE {})
            \cup (IF d.ROADS.passes # <<>> THEN {"roads"} ELSE {})
            \cup (IF d.AVAL # None THEN {"backcountry"} ELSE {})

\* The ids of the entries of primary and secondary in Nav.
NavSections(data) ==
  LET d == IF IsSome(data) THEN Get(data) ELSE [x |-> 0]
      has(k) == k \in DOMAIN d
      hasCams == has("CAMS") /\ Len(d.CAMS) > 0
      hasForecast == has("FORECAST") /\ Len(d.FORECAST.daily) > 0
      hasTemps == has("WEATHER") /\ Len(d.WEATHER) > 0
      hasWind == hasTemps /\ \E i \in 1..Len(d.WEATHER) : IsSome(d.WEATHER[i].wind)
      hasSnow == has("SNOW") /\ IsSome(d.SNOW)
      hasLifts == has("LIFTS") /\ Len(d.LIFTS) > 0
      hasRuns == has("RUNS") /\ Len(d.RUNS) > 0
      hasAval == has("AVAL") /\ IsSome(d.AVAL)
      hasRoads == has("ROADS") /\ Len(d.ROADS.passes) > 0
  IN {"home", "info"}
       \cup (IF hasCams THEN {"cams"} ELSE {})
       \cup (IF hasForecast THEN {"forecast"} ELSE {})
       \cup (IF hasLifts THEN {"lifts"} ELSE {})
       \cup (IF hasRuns THEN {"runs"} ELSE {})
       \cup (IF hasSnow THEN {"snow"} ELSE {})
       \cup (IF hasTemps THEN {"temps"} ELSE {})
       \cup (IF hasWind THEN {"wind"} ELSE {})
       \cup (IF hasRoads THEN {"roads"} ELSE {})
       \cup (IF hasAval THEN {"backcountry"} ELSE {})

\* {dataErr && <ErrorBanner message={dataErr} onRetry={refresh} />}
BannerShown == IsSome(client.dataErr)

\* setDataLoading(true); fetch(`${API_BASE}/state`, { cache: 'no-store' })
RefreshStart ==
  /\ client.calls < MaxCalls
  /\ client' = [client EXCEPT !.calls = @ + 1, !.dataLoading = TRUE]
  /\ UNCHANGED <<variant, env, alive, clock, cachedState, cachedAt, cacheVer, req,
                 health, settled, call, fnArg, fnOut>>

\* setData(await res.json()); setDataErr(null); finally setDataLoading(false)
RefreshOk(snap) ==
  /\ client.calls > 0
  /\ client' = [client EXCEPT !.calls = @ - 1, !.data = Some(snap), !.dataErr = None,
                              !.dataLoading = FALSE, !.last = "ok", !.got = Some(snap),
                              !.guardDue = TRUE]
  /\ UNCHANGED <<variant, env, alive, clock, cachedState, cachedAt, cacheVer, req,
                 health, settled, call, fnArg, fnOut>>

\* A mutant of RefreshFails: the failed refresh also drops the loaded data.
RefreshFailsDropsData(k) ==
  /\ client.calls > 0
  /\ client' = [client EXCEPT !.calls = @ - 1, !.dataErr = Some(ErrMessage(k)),
                              !.data = None,
                              !.dataLoading = FALSE, !.last = "failed", !.got = None]
  /\ UNCHANGED <<variant, env, alive, clock, cachedState, cachedAt, cacheVer, req,
                 health, settled, call, fnArg, fnOut>>

\* catch (err) { setDataErr(err.message); } finally { setDataLoading(false); }
RefreshFails(k) ==
  /\ client.calls > 0
  /\ client' = [client EXCEPT !.calls = @ - 1, !.dataErr = Some(ErrMessage(k)),
                              !.dataLoading = FALSE, !.last = "failed", !.got = None]
  /\ UNCHANGED <<variant, env, alive, clock, cachedState, cachedAt, cacheVer, req,
                 health, settled, call, fnArg, fnOut>>

\* The pages of the titles table of App.
Pages ==
  {"home", "cams", "forecast", "lifts", "runs", "snow", "temps", "wind", "roads",
   "backcountry", "info", "about", "support", "privacy"}

\* const avail = new Set([...]); if (...) avail.add(...), for data d not null
Avail(d) ==
  {"home", "info", "about", "support", "privacy"}
    \cup (IF Len(d.CAMS) > 0 THEN {"cams"} ELSE {})
    \cup (IF Len(d.FORECAST.daily) > 0 THEN {"forecast"} ELSE {})
    \cup (IF Len(d.WEATHER) > 0
          THEN {"temps"}
                 \cup (IF \E i \in 1..Len(d.WEATHER) : IsSome(d.WEATHER[i].wind)
                       THEN {"wind"} ELSE {})
          ELSE {})
    \cup (IF IsSome(d.SNOW) THEN {"snow"} ELSE {})
    \cup (IF Len(d.LIFTS) > 0 THEN {"lifts"} ELSE {})
    \cup (IF Len(d.RUNS) > 0 THEN {"runs"} ELSE {})
    \cup (IF IsSome(d.AVAL) THEN {"backcountry"} ELSE {})
    \cup (IF Len(d.ROADS.passes) > 0 THEN {"roads"} ELSE {})

\* The buttons that call setPage: the entries of Nav, the About list of the
\* menu, and the tiles of Home, which lead to sections Nav offers too. A
\* click is handled after the pending effects of the last render have run.
Navigate(p) ==
  /\ ~client.guardDue
  /\ p \in NavSections(client.data) \cup {"about", "support", "privacy"}
  /\ p # client.page
  /\ client' = [client EXCEPT !.page = p, !.guardDue = TRUE]
  /\ UNCHANGED <<variant, env, alive, clock, cachedState, cachedAt, cacheVer, req,
                 health, settled, call, fnArg, fnOut>>

\* A mutant of PageGuard: the effect never changes the page.
PageGuardKeepsPage ==
  /\ client.guardDue
  /\ client' = [client EXCEPT !.guardDue = FALSE]
  /\ UNCHANGED <<variant, env, alive, clock, cachedState, cachedAt, cacheVer, req,
                 health, settled, call, fnArg, fnOut>>

\* useEffect(() => { if (!data) return; ...; if (!avail.has(page))
\* setPage('home'); }, [data, page]): setPage makes the effect run again.
PageGuard ==
  /\ client.guardDue
  /\ IF IsSome(client.data) /\ client.page \notin Avail(Get(client.data))
     THEN client' = [client EXCEPT !.page = "home", !.resetFrom = Some(client.page)]
     ELSE client' = [client EXCEPT !.guardDue = FALSE]
  /\ UNCHANGED <<variant, env, alive, clock, cachedState, cachedAt, cacheVer, req,
                 health, settled, call, fnArg, fnOut>>

InitClient ==
  /\ variant = "index"
  /\ env = EnvAll
  /\ alive = TRUE
  /\ clock = 0
  /\ cachedState = None
  /\ cachedAt = 0
  /\ cacheVer = 0
  /\ req = [r \in Reqs |-> Idle]
  /\ health = None
  /\ settled = [f \in Fetchers |-> Pending]
  /\ call = NoCall(DefaultTimeoutMs)
  /\ fnArg = None
  /\ fnOut = None
  /\ client = NoClient

NextClient ==
  \/ RefreshStart
  \/ \E snap \in ClientSnapshots : RefreshOk(snap)
  \/ \E k \in ClientFailures : RefreshFails(k)
  \/ \E p \in Pages : Navigate(p)
  \/ PageGuard

SpecClient == InitClient /\ [][NextClient]_vars

----------------------------------------------------------------------------
(* SpecSnow: buildState applied to daily forecast feeds of every length up *)
(* to MaxSnowPeriods, each period a day or a night one, with or without    *)
(* snow in its wording, and to a forecast feed that fails; in the two      *)
(* variants that have calcSnowFromForecast.                                *)

SnowPeriods == { Period(n, Some(30), sn) : n \in BOOLEAN, sn \in BOOLEAN }

SnowFeeds == UNION { [1..n -> SnowPeriods] : n \in 0..MaxSnowPeriods }

SnowWorld(a) ==
  [WorldOk EXCEPT !["nws.forecast"] =
                    IF a.fails THEN Fail("non2xx")
                    ELSE Ok(PeriodsDoc("array", a.periods))]

\* const state = await buildState();
BuildSnapshot ==
  /\ fnOut = None
  /\ fnOut' = Some(buildState(variant, env, SnowWorld(Get(fnArg)), clock).value)
  /\ UNCHANGED <<variant, env, alive, clock, cachedState, cachedAt, cacheVer, req,
                 health, settled, call, fnArg, client>>

InitSnow ==
  /\ variant \in {"index", "part_001"}
  /\ env = EnvAll
  /\ alive = TRUE
  /\ clock = 0
  /\ cachedState = None
  /\ cachedAt = 0
  /\ cacheVer = 0
  /\ req = [r \in Reqs |-> Idle]
  /\ health = None
  /\ settled = [f \in Fetchers |-> Pending]
  /\ call = NoCall(DefaultTimeoutMs)
  /\ fnArg \in { Some([periods |-> ps, fails |-> FALSE]) : ps \in SnowFeeds }
                 \cup { Some([periods |-> <<>>, fails |-> TRUE]) }
  /\ fnOut = None
  /\ client = NoClient

NextSnow == BuildSnapshot

SpecSnow == InitSnow /\ [][NextSnow]_vars

----------------------------------------------------------------------------
(* SpecSize: buildState applied to upstream feeds of n entries each, for   *)
(* every n up to MaxFeed. With skip = 0 every entry is usable; otherwise   *)
(* every skip-th entry is not: for skip = 2 the camera has no image and    *)
(* the station no reading, for skip = 3 the entry lies out of range.       *)

SizeWorld(a) ==
  LET n == a.n
      odd(i) == a.skip > 0 /\ i % a.skip = 0
      far(i) == a.skip = 3 /\ odd(i)
      bare(i) == a.skip = 2 /\ odd(i)
  IN [WorldOk EXCEPT
        !["nws.forecast"] = Ok(PeriodsDoc("array", [i \in 1..n |-> AltPeriod(i, FALSE)])),
        !["nws.hourly"] = Ok(PeriodsDoc("array", [i \in 1..n |-> AltPeriod(i, FALSE)])),
        !["wsdot.cameras"] =
           Ok(ListDoc(TRUE, [i \in 1..n |->
                               Cam(i, TRUE, IF far(i) THEN 2000 ELSE 120, ~bare(i))])),
        !["wsdot.stations"] =
           Ok(ListDoc(TRUE, [i \in 1..n |->
                               Station(i, TRUE, IF far(i) THEN 2000 ELSE 100)])),
        !["wsdot.weather"] =
           Ok(ListDoc(TRUE, [i \in 1..n |->
                               Reading(i, IF bare(i) THEN None ELSE Some(30), None, None)])),
        !["wsdot.passes"] =
           Ok(ListDoc(TRUE, [i \in 1..n |->
                               Pass(i, TRUE, IF far(i) THEN 2000 ELSE 800)]))]

\* const state = await buildState();  against feeds of the size drawn
BuildFromFeeds ==
  /\ fnOut = None
  /\ fnOut' = Some(buildState(variant, env, SizeWorld(Get(fnArg)), clock).value)
  /\ UNCHANGED <<variant, env, alive, clock, cachedState, cachedAt, cacheVer, req,
                 health, settled, call, fnArg, client>>

InitSize ==
  /\ variant \in {"index", "part_001"}
  /\ env = EnvAll
  /\ alive = TRUE
  /\ clock = 0
  /\ cachedState = None
  /\ cachedAt = 0
  /\ cacheVer = 0
  /\ req = [r \in Reqs |-> Idle]
  /\ health = None
  /\ settled = [f \in Fetchers |-> Pending]
  /\ call = NoCall(DefaultTimeoutMs)
  /\ fnArg \in { Some([n |-> n, skip |-> k]) : n \in 0..MaxFeed, k \in {0, 2, 3} }
  /\ fnOut = None
  /\ client = NoClient

NextSize == BuildFromFeeds

SpecSize == InitSize /\ [][NextSize]_vars

----------------------------------------------------------------------------
(* SpecFreeze: fetchFreezingLevelDaily applied to every hourly series of   *)
(* up to MaxSamples samples, the times being strings of two days or not    *)
(* strings, the values numbers, null or text; and to series whose lists    *)
(* differ in length or are missing.                                        *)

SampleTimes == {None, Some(1), Some(2)}

SampleValues == {Num(12000), Num(9004), JsonNull, NotANumber}

FreezingInputs ==
  UNION { { FreezingSeries(Some(ts), Some(vs)) :
              ts \in [1..n -> SampleTimes], vs \in [1..n -> SampleValues] } :
          n \in 0..MaxSamples }
    \cup { FreezingSeries(Some(ts), Some(vs)) :
             ts \in [1..1 -> SampleTimes], vs \in [1..2 -> SampleValues] }
    \cup { FreezingSeries(None, Some(<<Num(12000)>>)),
           FreezingSeries(Some(<<Some(1)>>), None),
           FreezingSeries(None, None) }

\* const freezing = await fetchFreezingLevelDaily();  freezing.daily
AggregateFreezing ==
  /\ fnOut = None
  /\ fnOut' = Some(fetchFreezingLevelDaily(
                     [WorldOk EXCEPT !["openmeteo"] = Ok(Get(fnArg))]).value.daily)
  /\ UNCHANGED <<variant, env, alive, clock, cachedState, cachedAt, cacheVer, req,
                 health, settled, call, fnArg, client>>

InitFreeze ==
  /\ variant = "index"
  /\ env = EnvAll
  /\ alive = TRUE
  /\ clock = 0
  /\ cachedState = None
  /\ cachedAt = 0
  /\ cacheVer = 0
  /\ req = [r \in Reqs |-> Idle]
  /\ health = None
  /\ settled = [f \in Fetchers |-> Pending]
  /\ call = NoCall(DefaultTimeoutMs)
  /\ fnArg \in { Some(x) : x \in FreezingInputs }
  /\ fnOut = None
  /\ client = NoClient

NextFreeze == AggregateFreezing

SpecFreeze == InitFreeze /\ [][NextFreeze]_vars

----------------------------------------------------------------------------
(* SpecRoute: one GET request walking the middleware stack of the Express  *)
(* app, in the order the app registers it: cors, the two API routes, then, *)
(* if dist exists, express.static and the SPA fallback, and at the end the *)
(* not-found answer of the framework. A path is the sequence of its        *)
(* characters.                                                             *)

ApiSlash == <<"/", "a", "p", "i", "/">>
ApiNoSlash == <<"/", "a", "p", "i">>
HealthPath == ApiSlash \o <<"h", "e", "a", "l", "t", "h">>
StatePath == ApiSlash \o <<"s", "t", "a", "t", "e">>

\* The paths requested.
Paths ==
  { HealthPath, StatePath, ApiSlash \o <<"x">>, ApiSlash \o <<"s", "t", "a", "t">>,
    ApiNoSlash, ApiNoSlash \o <<"x">>, <<"/">>, <<"/", "c", "a", "m", "s">> }

\* String.prototype.startsWith
StartsWith(p, pre) == Len(p) >= Len(pre) /\ SubSeq(p, 1, Len(pre)) = pre

\* if (fs.existsSync(distDir)) { app.use(express.static(...)); app.get('*', ...) }
Stack(dist) ==
  <<"cors", "health", "state">>
    \o (IF dist THEN <<"static", "fallback">> ELSE <<>>)
    \o <<"final">>

\* The layer the request is at, if it is still on its way.
Layer ==
  IF IsSome(fnOut) /\ Get(fnOut).res = None /\ ~Get(fnOut).dropped
  THEN Stack(Get(fnArg).dist)[Get(fnOut).at] ELSE "none"

PassOn == fnOut' = Some([Get(fnOut) EXCEPT !.at = @ + 1])

Answer(st, what) ==
  fnOut' = Some([Get(fnOut) EXCEPT !.res = Some([status |-> st, body |-> what])])

\* app.use(cors())
Cors ==
  /\ Layer = "cors"
  /\ PassOn
  /\ UNCHANGED <<variant, env, alive, clock, cachedState, cachedAt, cacheVer, req,
                 health, settled, call, fnArg, client>>

\* app.get('/api/health', ...)
HealthRoute ==
  /\ Layer = "health"
  /\ IF Get(fnArg).path = HealthPath THEN Answer(200, "health") ELSE PassOn
  /\ UNCHANGED <<variant, env, alive, clock, cachedState, cachedAt, cacheVer, req,
                 health, settled, call, fnArg, client>>

\* app.get('/api/state', ...): the route takes the request
StateRoute ==
  /\ Layer = "state"
  /\ IF Get(fnArg).path = StatePath THEN Answer(200, "state") ELSE PassOn
  /\ UNCHANGED <<variant, env, alive, clock, cachedState, cachedAt, cacheVer, req,
                 health, settled, call, fnArg, client>>

\* express.static(distDir): answers if the path names a file of dist
Static ==
  /\ Layer = "static"
  /\ IF Get(fnArg).file THEN Answer(200, "file") ELSE PassOn
  /\ UNCHANGED <<variant, env, alive, clock, cachedState, cachedAt, cacheVer, req,
                 health, settled, call, fnArg, client>>

\* app.get('*', (req, res, next) => { if (req.path.startsWith('/api/')) return
\* next(); res.sendFile(...) }); part_000: if (req.path.startsWith('/api'))
\* return; with neither an answer nor next()
Fallback ==
  /\ Layer = "fallback"
  /\ IF variant = "part_000"
     THEN IF StartsWith(Get(fnArg).path, ApiNoSlash)
          THEN fnOut' = Some([Get(fnOut) EXCEPT !.dropped = TRUE])
          ELSE Answer(200, "index.html")
     ELSE IF StartsWith(Get(fnArg).path, ApiSlash)
          THEN PassOn
          ELSE Answer(200, "index.html")
  /\ UNCHANGED <<variant, env, alive, clock, cachedState, cachedAt, cacheVer, req,
                 health, settled, call, fnArg, client>>

\* No layer is left: the framework answers 404.
NotFound ==
  /\ Layer = "final"
  /\ Answer(404, "Cannot GET")
  /\ UNCHANGED <<variant, env, alive, clock, cachedState, cachedAt, cacheVer, req,
                 health, settled, call, fnArg, client>>

InitRoute ==
  /\ variant \in Variants
  /\ env = EnvAll
  /\ alive = TRUE
  /\ clock = 0
  /\ cachedState = None
  /\ cachedAt = 0
  /\ cacheVer = 0
  /\ req = [r \in Reqs |-> Idle]
  /\ health = None
  /\ settled = [f \in Fetchers |-> Pending]
  /\ call = NoCall(DefaultTimeoutMs)
  /\ fnArg \in { Some([path |-> p, dist |-> d, file |-> f]) :
                   p \in Paths, d \in BOOLEAN, f \in BOOLEAN }
  /\ fnOut = Some([at |-> 1, res |-> None, dropped |-> FALSE])
  /\ client = NoClient

NextRoute ==
  \/ Cors
  \/ HealthRoute
  \/ StateRoute
  \/ Static
  \/ Fallback
  \/ NotFound

SpecRoute == InitRoute /\ [][NextRoute]_vars

\* Express calls the next layer as soon as one has passed the request on.
FairRoute == SpecRoute /\ WF_vars(NextRoute)

----------------------------------------------------------------------------
(* Claims checked under Spec *)

Answered(r) == req[r].pc = "done" /\ req[r].status = 200

GenOf(r) == Get(req[r].body).generatedAt

(* C1. Cache hit: when a snapshot is cached and the request arrives less   *)
(* than 60 s after the cached timestamp, the request is answered at once   *)
(* with exactly the cached snapshot, issues no upstream request and leaves *)
(* cachedState and cachedAt as they were.                                  *)
C1_CacheHitServesCache ==
  [][\A r \in Reqs :
       (/\ req[r].pc = "idle"
        /\ req'[r].pc # "idle"
        /\ IsSome(cachedState)
        /\ clock - cachedAt < 60000)
       => (/\ req'[r].pc = "done"
           /\ req'[r].status = 200
           /\ req'[r].body = cachedState
           /\ req'[r].calls = {}
           /\ cachedState' = cachedState
           /\ cachedAt' = cachedAt)]_vars

\* A request was answered from the cache, 30 s after the cached timestamp.
C1_Witness ==
  \E r \in Reqs :
    /\ Answered(r)
    /\ req[r].hit
    /\ req[r].calls = {}
    /\ req[r].body = cachedState
    /\ req[r].now - cachedAt = TickMs

(* C2, as stated. Two calls in the same TTL window (the second arrives     *)
(* less than 60 s after the first, the first being the one whose build     *)
(* opens the window) return the same generatedAt, also when the second     *)
(* arrives while the first one's build is still in flight.                 *)
C2_SameWindowSameGeneratedAt ==
  \A r1, r2 \in Reqs :
    (/\ Answered(r1)
     /\ Answered(r2)
     /\ ~req[r1].hit
     /\ req[r1].now <= req[r2].now
     /\ req[r2].now - req[r1].now < CACHE_TTL_MS)
    => GenOf(r1) = GenOf(r2)

(* C2, amended. Two calls answered with the same cache entry (the call     *)
(* whose build stored it, and every call that arrived while it was the     *)
(* cached one and fresh) return the same generatedAt.                      *)
C2_SameEntrySameGeneratedAt ==
  \A r1, r2 \in Reqs :
    (Answered(r1) /\ Answered(r2) /\ req[r1].ver = req[r2].ver)
    => GenOf(r1) = GenOf(r2)

\* One request stored an entry and a later one was answered with it.
C2_Witness ==
  \E r1, r2 \in Reqs :
    /\ Answered(r1) /\ ~req[r1].hit
    /\ Answered(r2) /\ req[r2].hit
    /\ req[r1].ver = req[r2].ver
    /\ req[r2].now > req[r1].now
    /\ GenOf(r1) = GenOf(r2)

C4_StoredWithTimeOfStore ==
  [][cacheVer' # cacheVer => cachedAt' = clock']_vars

(* C9. /api/health answers ok = true in every reachable state, and         *)
(* answering changes neither the cache nor any /api/state request (it      *)
(* issues no upstream request).                                            *)
C9_HealthAlwaysOk ==
  /\ [](ENABLED Health)
  /\ [][health' # health
         => (/\ Get(health').ok = TRUE
             /\ UNCHANGED <<cachedState, cachedAt, cacheVer, req>>)]_vars

\* Health answered while a build was in flight and a snapshot was cached.
C9_Witness ==
  /\ IsSome(health)
  /\ Get(health).ok
  /\ IsSome(cachedState)
  /\ \E r \in Reqs : req[r].pc = "building" /\ Get(health).time >= req[r].now

(* C10. Whenever building the snapshot throws, the request is answered     *)
(* with status 500 and { error: <message> } and the process keeps running. *)
C10_ThrowGives500 ==
  \A r \in Reqs :
    req[r].threw
    => (/\ req[r].pc = "done"
        /\ req[r].status = 500
        /\ req[r].body = Some(ErrorBody)
        /\ alive)

----------------------------------------------------------------------------
(* Claims checked under SpecBuild *)

NineKeys ==
  { "generatedAt", "FORECAST", "CAMS", "WEATHER", "ROADS", "AVAL", "SNOW",
    "LIFTS", "RUNS" }

Snapshot == Get(req[1].body)

\* The source behind fetcher f failed: the fetcher's catch block ran.
Failed(f) == f \in Awaited(variant) /\ settled[f].caught

(* C5. Whatever failures the upstream calls meet (network error, timeout,  *)
(* non-2xx status, malformed body), no fetcher rejects to buildState, and  *)
(* the request is answered with status 200 and a snapshot that has all     *)
(* nine top-level keys.                                                    *)
C5_FailuresStill200 ==
  /\ \A f \in Fetchers : ~settled[f].thrown
  /\ ~req[1].threw
  /\ req[1].pc = "done"
       => (/\ req[1].status = 200
           /\ DOMAIN Snapshot = NineKeys)

\* Every one of the seven fetchers failed and the answer is still a 200.
C5_Witness ==
  /\ \A f \in Fetchers : Failed(f)
  /\ req[1].pc = "done"
  /\ req[1].status = 200
  /\ DOMAIN Snapshot = NineKeys

\* The fields other than CAMS hold their empty default when their source
\* failed or its credential is missing.
DefaultsBesidesCams ==
  /\ Failed("forecast")
       => (/\ Snapshot.FORECAST.daily = <<>>
           /\ Snapshot.FORECAST.hourly = <<>>
           /\ Snapshot.SNOW = None)
  /\ (Failed("weather") \/ ~env.wsdot) => Snapshot.WEATHER = <<>>
  /\ (Failed("roads") \/ ~env.wsdot) => Snapshot.ROADS.passes = <<>>
  /\ Failed("aval") => Snapshot.AVAL = None
  /\ (Failed("lifts") \/ ~env.otsKey \/ ~env.otsResort) => Snapshot.LIFTS = <<>>
  /\ (Failed("runs") \/ ~env.otsKey \/ ~env.otsResort) => Snapshot.RUNS = <<>>

(* C6, as stated. When a source is unavailable (it failed, or its          *)
(* credential is missing) the field it feeds holds its empty default: the  *)
(* list fields are empty and AVAL and SNOW are null; in particular CAMS is *)
(* the empty list when the camera feed is unavailable.                     *)
C6_UnavailableGivesEmptyDefault ==
  (req[1].pc = "done" /\ req[1].status = 200)
    => (/\ DefaultsBesidesCams
        /\ (Failed("cams") \/ ~env.wsdot) => Snapshot.CAMS = <<>>)

(* C6, amended. When a source is unavailable the field it feeds holds its  *)
(* empty default, except CAMS: with the camera feed unavailable CAMS holds *)
(* exactly the built-in static cameras and no WSDOT camera.                *)
C6_UnavailableGivesDefaultStaticCams ==
  (req[1].pc = "done" /\ req[1].status = 200)
    => (/\ DefaultsBesidesCams
        /\ (Failed("cams") \/ ~env.wsdot) => Snapshot.CAMS = StaticCams(variant))

\* Every source failed: each field is at its default, CAMS at the static ones.
C6_Witness ==
  /\ variant # "part_000"
  /\ \A f \in Fetchers : Failed(f)
  /\ req[1].pc = "done"
  /\ req[1].status = 200
  /\ Snapshot.AVAL = None
  /\ Snapshot.SNOW = None
  /\ Snapshot.WEATHER = <<>>
  /\ Snapshot.CAMS = StaticCams(variant)
  /\ Len(Snapshot.CAMS) = 2

WsdotCalls == {"wsdot.cameras", "wsdot.stations", "wsdot.weather", "wsdot.passes"}
OtsCalls == {"ots.lifts", "ots.trails"}

\* Every upstream request issued so far for the request being served.
Issued == req[1].calls \cup UNION { settled[f].calls : f \in Fetchers }

(* C8. With no WSDOT access code no WSDOT request is issued, the camera,   *)
(* weather and pass fetchers return their empty defaults without failing,  *)
(* and WEATHER and ROADS.passes are empty; with the OnTheSnow key or the   *)
(* resort id missing no OnTheSnow request is issued and LIFTS and RUNS are *)
(* empty; the request is answered with 200.                                *)
C8_MissingCredentialNoCall ==
  /\ ~env.wsdot
       => (/\ Issued \cap WsdotCalls = {}
           /\ \A f \in {"cams", "weather", "roads"} : ~settled[f].caught
           /\ req[1].pc = "done"
                => (/\ req[1].status = 200
                    /\ Snapshot.WEATHER = <<>>
                    /\ Snapshot.ROADS.passes = <<>>))
  /\ (~env.otsKey \/ ~env.otsResort)
       => (/\ Issued \cap OtsCalls = {}
           /\ \A f \in {"lifts", "runs"} : ~settled[f].caught
           /\ req[1].pc = "done"
                => (/\ req[1].status = 200
                    /\ Snapshot.LIFTS = <<>>
                    /\ Snapshot.RUNS = <<>>))

\* No WSDOT code and no resort id (the key is set): answered 200 with the
\* credential-free sources called and the others at their defaults.
C8_Witness ==
  /\ variant = "index"
  /\ ~env.wsdot /\ env.otsKey /\ ~env.otsResort
  /\ req[1].pc = "done"
  /\ req[1].status = 200
  /\ Issued = {"nws.points", "nws.forecast", "nws.hourly", "openmeteo", "avalanche"}
  /\ Snapshot.ROADS.passes = <<>>
  /\ Snapshot.LIFTS = <<>>
  /\ Snapshot.RUNS = <<>>

----------------------------------------------------------------------------
(* Claims checked under FairFetch *)

(* C7. Every fetcher invocation that has started eventually returns (its   *)
(* value or its default), whatever the upstream does: never answering, or  *)
(* stalling after the response headers while the body is read.             *)
C7_FetcherEventuallyReturns ==
  (call.pc # "idle") ~> (call.pc = "returned")

----------------------------------------------------------------------------
(* Claims checked under SpecPair *)

(* C11. For an alternating feed of day and night periods, of any length    *)
(* and starting with either kind, FORECAST.daily has ceil(periods/2)       *)
(* entries, and each entry's hi is the temperature of a day period and its *)
(* lo the temperature of the night period that follows that day (null      *)
(* when the feed ends with the day).                                       *)
C11_PairsDayWithFollowingNight ==
  IsSome(fnOut)
    => LET ps == Get(fnArg)
           daily == Get(fnOut)
       IN /\ Len(daily) = (Len(ps) + 1) \div 2
          /\ \A k \in 1..Len(daily) :
               \E i \in 1..Len(ps) :
                 /\ ~ps[i].isNighttime
                 /\ daily[k].hi = ps[i].temperature
                 /\ daily[k].lo = IF i + 1 <= Len(ps) THEN ps[i + 1].temperature
                                  ELSE None

----------------------------------------------------------------------------
(* Claims checked under SpecBuild: the distance filter *)

\* Every upstream entry of the lists docs whose identifier (field key) is id
\* has numeric coordinates and lies at most r miles away; there is one.
AllWithin(docs, key, id, r) ==
  LET hits == { x \in UNION { { d.items[j] : j \in 1..Len(d.items) } : d \in docs } :
                x[key] = id }
  IN hits # {} /\ \A x \in hits : x.num /\ x.tenths <= 10 * r

(* C12. Every WSDOT camera, weather station and mountain pass in the       *)
(* snapshot has numeric coordinates at most the radius of its list away    *)
(* (40, 50 and 80 miles); entries farther away or without numeric          *)
(* coordinates never appear.                                               *)
C12_OnlyNearbyEntriesAppear ==
  (req[1].pc = "done" /\ req[1].status = 200)
    => (/\ \A i \in 1..Len(Snapshot.CAMS) :
             "id" \in DOMAIN Snapshot.CAMS[i]
               => AllWithin(CameraData, "CameraID", Snapshot.CAMS[i].id, 40)
        /\ \A i \in 1..Len(Snapshot.WEATHER) :
             AllWithin(StationData, "StationCode", Snapshot.WEATHER[i].id, 50)
        /\ \A i \in 1..Len(Snapshot.ROADS.passes) :
             AllWithin(PassData, "MountainPassId", Snapshot.ROADS.passes[i].id, 80))

\* The camera 12 miles away, the station 10 miles away and the pass 80 miles
\* away are in the snapshot; the upstream lists also held entries 200, 50.1
\* and 80.1 miles away and entries without numeric coordinates.
C12_Witness ==
  /\ req[1].pc = "done"
  /\ req[1].status = 200
  /\ \E i \in 1..Len(Snapshot.CAMS) :
       "id" \in DOMAIN Snapshot.CAMS[i] /\ Snapshot.CAMS[i].id = 1
  /\ \E i \in 1..Len(Snapshot.WEATHER) : Snapshot.WEATHER[i].id = 1
  /\ Snapshot.ROADS.passes = << [id |-> 1] >>

----------------------------------------------------------------------------
(* Claims checked under SpecNear *)

StationIds(ws) == { ws[i].id : i \in 1..Len(ws) }

\* How many stations before position p of the list l are within 50 miles.
NearerBefore(l, p) == Cardinality({ i \in 1..(p - 1) : l[i].num /\ l[i].tenths <= 500 })

PositionOf(l, code) == CHOOSE i \in 1..Len(l) : l[i].StationCode = code

(* C13, as stated. For every station list that contains them, the station  *)
(* 0.1 miles away is in the output and the station 200 miles away is not.  *)
C13_NearIncludedFarExcluded ==
  IsSome(fnOut)
    => (1 \in StationIds(Get(fnOut)) /\ 2 \notin StationIds(Get(fnOut)))

(* C13, amended. The station 200 miles away is never in the output; the    *)
(* station 0.1 miles away is in the output exactly when fewer than six     *)
(* stations within 50 miles precede it in the list and the weather feed    *)
(* has a temperature or wind reading for it.                               *)
C13_NearIncludedWhenAmongFirstSixWithReading ==
  IsSome(fnOut)
    => (/\ 2 \notin StationIds(Get(fnOut))
        /\ 1 \in StationIds(Get(fnOut))
             <=> (/\ NearerBefore(Get(fnArg).stations,
                                  PositionOf(Get(fnArg).stations, 1)) < 6
                  /\ Get(fnArg).reading))

\* The near station comes after the far one and after two others, has a
\* reading, and is in the output together with a station 45 miles away.
C13_Witness ==
  /\ IsSome(fnOut)
  /\ Get(fnArg).reading
  /\ PositionOf(Get(fnArg).stations, 1) = 4
  /\ PositionOf(Get(fnArg).stations, 2) = 1
  /\ 1 \in StationIds(Get(fnOut))
  /\ 2 \notin StationIds(Get(fnOut))
  /\ \E c \in StationIds(Get(fnOut)) : c > 10

----------------------------------------------------------------------------
(* Claims checked under SpecIso *)

SnapshotFields ==
  { "daily", "hourly", "freezing", "CAMS", "WEATHER", "ROADS", "AVAL", "SNOW",
    "LIFTS", "RUNS" }

FieldOf(snap, f) ==
  CASE f = "daily" -> snap.FORECAST.daily
    [] f = "hourly" -> snap.FORECAST.hourly
    [] f = "freezing" ->
         IF "freezing" \in DOMAIN snap.FORECAST THEN snap.FORECAST.freezing ELSE None
    [] OTHER -> snap[f]

\* The snapshot fields fed by the source that upstream call c belongs to: the
\* three api.weather.gov calls count as one source, the two WSDOT weather
\* calls as one.
FieldsFedBy(c) ==
  CASE c \in {"nws.points", "nws.forecast", "nws.hourly"} -> {"daily", "hourly", "SNOW"}
    [] c = "openmeteo" -> {"freezing"}
    [] c = "wsdot.cameras" -> {"CAMS"}
    [] c \in {"wsdot.stations", "wsdot.weather"} -> {"WEATHER"}
    [] c = "wsdot.passes" -> {"ROADS"}
    [] c = "avalanche" -> {"AVAL"}
    [] c = "ots.lifts" -> {"LIFTS"}
    [] c = "ots.trails" -> {"RUNS"}

(* C14. When a single source fails, every snapshot field that belongs to a *)
(* different source has the value it has when that source succeeds.        *)
C14_FailureChangesOnlyOwnFields ==
  IsSome(fnOut)
    => \A f \in SnapshotFields \ FieldsFedBy(Get(fnArg).fails) :
         FieldOf(Get(fnOut).bad, f) = FieldOf(Get(fnOut).good, f)

----------------------------------------------------------------------------
(* Claims checked under Spec: retry after expiry *)

\* The first upstream call of each fetcher whose source had failed in the pass
\* that produced the snapshot snap (its field is at the default) and whose
\* credential is set.
FirstCallsOfFailed(snap) ==
  (IF snap.FORECAST.daily = <<>> THEN {"nws.points"} ELSE {})
    \cup (IF variant # "part_000" /\ snap.AVAL = None THEN {"avalanche"} ELSE {})
    \cup (IF variant # "part_000" /\ env.wsdot /\ snap.ROADS.passes = <<>>
          THEN {"wsdot.passes"} ELSE {})
    \cup (IF variant # "part_000" /\ env.otsKey /\ env.otsResort /\ snap.LIFTS = <<>>
          THEN {"ots.lifts"} ELSE {})

(* C15. After a pass in which a source failed the server keeps running; a  *)
(* request arriving 60 s or more after the cached timestamp invokes the    *)
(* failed source's fetcher again (its first upstream call is issued), and  *)
(* a request arriving earlier issues no upstream call and is answered with *)
(* the cached snapshot.                                                    *)
C15_FailedSourceRetriedAfterExpiry ==
  /\ [](alive)
  /\ [][\A r \in Reqs :
          (req[r].pc = "idle" /\ req'[r].pc # "idle" /\ IsSome(cachedState))
          => IF clock - cachedAt >= 60000
             THEN /\ req'[r].pc = "building"
                  /\ FirstCallsOfFailed(Get(cachedState)) \subseteq req'[r].calls
             ELSE /\ req'[r].calls = {}
                  /\ req'[r].pc = "done"
                  /\ req'[r].body = cachedState]_vars

\* Every source failed in the cached pass; a request that arrived after the
\* entry expired is building and has called each of them again.
C15_Witness ==
  /\ variant = "index"
  /\ env = EnvAll
  /\ IsSome(cachedState)
  /\ Get(cachedState).AVAL = None
  /\ Get(cachedState).FORECAST.daily = <<>>
  /\ \E r \in Reqs :
       /\ req[r].pc = "building"
       /\ req[r].seen = Some(Get(cachedState).generatedAt)
       /\ req[r].now - cachedAt >= 60000
       /\ {"nws.points", "avalanche", "wsdot.passes", "ots.lifts"} \subseteq req[r].calls

----------------------------------------------------------------------------
(* Claims checked under SpecClient *)

(* C16. The error banner is shown exactly when the /api/state call that    *)
(* completed most recently failed; a refresh that fails sets the error and *)
(* leaves the loaded data as it was, and a refresh that succeeds replaces  *)
(* the data with the snapshot received and clears the error.               *)
C16_BannerIffLastRefreshFailed ==
  /\ [](BannerShown <=> client.last = "failed")
  /\ [][client'.calls < client.calls
          => IF client'.last = "failed"
             THEN /\ IsSome(client'.dataErr)
                  /\ client'.data = client.data
             ELSE /\ client'.dataErr = None
                  /\ IsSome(client'.got)
                  /\ client'.data = client'.got]_vars

\* A snapshot is loaded, a later refresh failed: the banner is up and the
\* snapshot is still there, while another call is in flight.
C16_Witness ==
  /\ BannerShown
  /\ client.last = "failed"
  /\ IsSome(client.data)
  /\ client.calls = 1

(* C17. The navigation offers a section exactly when its data is there:    *)
(* cams iff CAMS is non-empty, forecast iff FORECAST.daily is non-empty,   *)
(* temps iff WEATHER is non-empty, wind iff a WEATHER entry has a wind     *)
(* value, snow iff SNOW is not null, lifts iff LIFTS is non-empty, runs    *)
(* iff RUNS is non-empty, backcountry iff AVAL is not null, roads iff      *)
(* ROADS.passes is non-empty; home and info are always offered.            *)
C17_SectionOfferedIffDataPresent ==
  LET nav == NavSections(client.data)
      loaded == IsSome(client.data)
      d == Get(client.data)
  IN /\ {"home", "info"} \subseteq nav
     /\ "cams" \in nav <=> (loaded /\ d.CAMS # <<>>)
     /\ "forecast" \in nav <=> (loaded /\ d.FORECAST.daily # <<>>)
     /\ "temps" \in nav <=> (loaded /\ d.WEATHER # <<>>)
     /\ "wind" \in nav
          <=> (loaded /\ \E i \in 1..Len(d.WEATHER) : d.WEATHER[i].wind # None)
     /\ "snow" \in nav <=> (loaded /\ d.SNOW # None)
     /\ "lifts" \in nav <=> (loaded /\ d.LIFTS # <<>>)
     /\ "runs" \in nav <=> (loaded /\ d.RUNS # <<>>)
     /\ "backcountry" \in nav <=> (loaded /\ d.AVAL # None)
     /\ "roads" \in nav <=> (loaded /\ d.ROADS.passes # <<>>)
     /\ nav \subseteq {"home", "info", "cams", "forecast", "temps", "wind", "snow",
                       "lifts", "runs", "backcountry", "roads"}

\* Stations are loaded but none reports wind, and no lift data: temps is
\* offered, wind and lifts are not.
C17_Witness ==
  /\ IsSome(client.data)
  /\ Get(client.data).WEATHER # <<>>
  /\ Get(client.data).LIFTS = <<>>
  /\ "temps" \in NavSections(client.data)
  /\ "wind" \notin NavSections(client.data)
  /\ "lifts" \notin NavSections(client.data)

----------------------------------------------------------------------------
(* Claims checked under SpecBuild: concurrency of one pass *)

\* The first upstream call of each fetcher that has what it needs to run.
FirstCalls ==
  {"nws.points"}
    \cup (IF variant # "part_000"
          THEN {"avalanche"}
                 \cup (IF env.wsdot
                       THEN {"wsdot.cameras", "wsdot.stations", "wsdot.passes"} ELSE {})
                 \cup (IF env.otsKey /\ env.otsResort
                       THEN {"ots.lifts", "ots.trails"} ELSE {})
          ELSE {})

\* The calls whose URL or need comes out of an earlier call of their fetcher.
FollowUpCalls == {"nws.forecast", "nws.hourly", "openmeteo", "wsdot.weather"}

(* C18, as stated. Every upstream call of a pass is issued when the pass   *)
(* starts: none is issued after another call of the pass has completed.    *)
C18_AllCallsIssuedAtStart ==
  req[1].pc = "building" => Issued \subseteq req[1].calls

(* C18, amended. The first call of every fetcher is issued when the pass   *)
(* starts, before any call has completed; the only calls issued later are  *)
(* the follow-up calls inside a fetcher (forecast, hourly and freezing     *)
(* level after the points call, weather readings after the station list).  *)
C18_FirstCallsIssuedAtStart ==
  req[1].pc = "building"
    => (/\ req[1].calls = FirstCalls
        /\ Issued \ req[1].calls \subseteq FollowUpCalls)

\* Seven fetchers were started at once; the forecast fetcher has issued its
\* follow-up calls while the six others are still waiting for their first.
C18_Witness ==
  /\ req[1].pc = "building"
  /\ Cardinality(req[1].calls) = 7
  /\ {"nws.forecast", "nws.hourly", "openmeteo"} \subseteq settled["forecast"].calls
  /\ \A f \in Fetchers \ {"forecast"} : IsPending(settled[f])

\* The pass has answered 200 with a snapshot.
SnapshotSent == req[1].pc = "done" /\ req[1].status = 200

(* C19. A snapshot is sent, and the cache written, only when every fetcher *)
(* the pass awaits has settled, and what is sent and cached is made of the *)
(* values those fetchers settled with: nothing in it comes from a fetcher  *)
(* that is still in flight.                                                *)
C19_SnapshotOnlyAfterAllSettled ==
  /\ (SnapshotSent \/ IsSome(cachedState))
       => \A f \in Awaited(variant) : ~IsPending(settled[f]) /\ ~settled[f].thrown
  /\ IsSome(cachedState) => SnapshotSent /\ cachedState = req[1].body
  /\ SnapshotSent
       => /\ Snapshot.FORECAST = settled["forecast"].value
          /\ variant # "part_000"
               => /\ Snapshot.CAMS = StaticCams(variant) \o settled["cams"].value
                  /\ Snapshot.WEATHER = settled["weather"].value
                  /\ Snapshot.ROADS = settled["roads"].value
                  /\ Snapshot.AVAL = settled["aval"].value
                  /\ Snapshot.LIFTS = settled["lifts"].value
                  /\ Snapshot.RUNS = settled["runs"].value
                  /\ Snapshot.SNOW
                       = calcSnowFromForecast(settled["forecast"].value,
                                              Snapshot.generatedAt)
          /\ req[1].calls = UNION { settled[f].calls : f \in Awaited(variant) }

\* A snapshot of seven settled fetchers, with upstream data in it, was sent
\* and cached.
C19_Witness ==
  /\ SnapshotSent
  /\ variant = "index"
  /\ \A f \in Fetchers : ~IsPending(settled[f])
  /\ Snapshot.WEATHER # <<>>
  /\ Snapshot.LIFTS # <<>>
  /\ cachedState = req[1].body

----------------------------------------------------------------------------
(* Claims checked under Spec: requests that overlap *)

\* The requests that found no fresh cache entry when they arrived.
Misses == { r \in Reqs : req[r].pc # "idle" /\ ~req[r].hit }

(* C20. Every request that arrives while the cache is empty or expired     *)
(* runs a build of its own, also when another request's build is under     *)
(* way: it issues its own upstream calls and is answered 200 with a        *)
(* snapshot of all nine keys; once all of them are answered, the cache     *)
(* holds the snapshot and the timestamp of one of them, the last to write. *)
C20_OverlappingMissesEachBuild ==
  /\ \A r \in Misses :
       /\ req[r].calls # {}
       /\ req[r].pc \in {"building", "done"}
       /\ req[r].pc = "done"
            => /\ req[r].status = 200
               /\ DOMAIN Get(req[r].body) = NineKeys
               /\ req[r].ver > 0
  /\ \A r1, r2 \in Misses : r1 # r2 /\ Answered(r1) /\ Answered(r2)
       => req[r1].ver # req[r2].ver
  /\ (Misses # {} /\ \A r \in Misses : req[r].pc = "done")
       => \E r \in Misses :
            /\ req[r].ver = cacheVer
            /\ cachedState = req[r].body
            /\ cachedAt = req[r].now

\* Two requests arrived at different times while the cache was still empty
\* and built snapshots that differ; both were answered and the cache holds
\* the snapshot and the arrival time of the second.
C20_Witness ==
  /\ Misses = {1, 2}
  /\ Answered(1) /\ Answered(2)
  /\ req[1].seen = None /\ req[2].seen = None
  /\ req[1].now < req[2].now
  /\ req[1].body # req[2].body
  /\ cachedState = req[2].body
  /\ cachedAt = req[2].now

(* C21. The cache entry is replaced as a whole: in every state either the  *)
(* cache is as it was at start (null, 0), or its snapshot and its          *)
(* timestamp were written by the same request, the timestamp being that    *)
(* request's arrival time and the snapshot the one its build produced; and *)
(* every snapshot a request is answered with has all nine keys.            *)
C21_CacheReplacedAsAWhole ==
  /\ \/ cachedState = None /\ cachedAt = 0
     \/ \E r \in Misses :
          /\ Answered(r)
          /\ req[r].ver = cacheVer
          /\ cachedState = req[r].body
          /\ cachedAt = req[r].now
  /\ \A r \in Reqs : Answered(r) => DOMAIN Get(req[r].body) = NineKeys

\* A second build has replaced the entry of a first one, which had arrived
\* at another time.
C21_Witness ==
  /\ cacheVer = 2
  /\ \E r1, r2 \in Misses :
       /\ req[r1].ver = 1 /\ req[r2].ver = 2
       /\ req[r1].now # req[r2].now
       /\ cachedState = req[r2].body
       /\ cachedAt = req[r2].now

----------------------------------------------------------------------------
(* Claims checked under SpecClient: the page guard *)

\* The pages that belong to no section of the snapshot.
StaticPages == {"home", "info", "about", "support", "privacy"}

(* C22. Once the effect that follows a change of data or page has run, the *)
(* page shown is one the loaded data makes available; the effect changes   *)
(* the page only when the page's section is missing from the data, and     *)
(* then to home; home, info, about, support and privacy are never reset.   *)
C22_PageResetWhenSectionGone ==
  /\ []((~client.guardDue /\ IsSome(client.data))
          => client.page \in Avail(Get(client.data)))
  /\ [][(client.guardDue /\ client'.page # client.page)
          => /\ client'.page = "home"
             /\ client.page \notin StaticPages
             /\ IsSome(client.data)
             /\ client.page \notin Avail(Get(client.data))
             /\ client'.guardDue]_vars
  /\ [][(client.page \in StaticPages /\ client'.page # client.page)
          => ~client.guardDue /\ client'.guardDue]_vars

\* The lifts page was shown, a snapshot without lifts arrived, and the page
\* is home again with the effect settled.
C22_Witness ==
  /\ client.resetFrom = Some("lifts")
  /\ client.page = "home"
  /\ ~client.guardDue
  /\ IsSome(client.data)
  /\ Get(client.data).LIFTS = <<>>
  /\ Get(client.data).FORECAST.daily # <<>>
  /\ client.last = "ok"
  /\ client.calls = 0

(* C27. dataLoading is true in every state in which an /api/state refresh  *)
(* is in flight, also when two refreshes overlap, and false when a refresh *)
(* has completed and none is in flight.                                    *)
C27_LoadingWhileRefreshInFlight ==
  /\ client.calls > 0 => client.dataLoading
  /\ (client.calls = 0 /\ client.last # "none") => ~client.dataLoading

----------------------------------------------------------------------------
(* Claims checked under Spec: the age of the cache entry *)

(* C23. The cache timestamp never decreases: every write of cachedAt       *)
(* stores a value greater than or equal to the one it replaces, however    *)
(* the requests overlap.                                                   *)
C23_CachedAtNeverDecreases == [][cachedAt' >= cachedAt]_vars

----------------------------------------------------------------------------
(* Claims checked under SpecFault: a build that fails *)

\* The build of some request has thrown.
SomeBuildFailed == \E r \in Reqs : req[r].threw

(* C25. A build that rejects leaves the cache as it was: the step in which *)
(* it fails changes neither cachedState nor cachedAt, the server goes on   *)
(* taking requests, so a fresh entry is still served, and a request that   *)
(* then finds no fresh entry starts a build of its own.                    *)
C25_FailedBuildLeavesCache ==
  /\ [][\A r \in Reqs :
          (req'[r].threw /\ ~req[r].threw)
            => cachedState' = cachedState /\ cachedAt' = cachedAt]_vars
  /\ [](SomeBuildFailed => alive)
  /\ [](\A r \in Reqs :
          (SomeBuildFailed /\ req[r].pc = "idle"
             /\ \A q \in Reqs : q < r => req[q].pc # "idle")
            => ENABLED Arrive(r))

----------------------------------------------------------------------------
(* Claims checked under FairRoute *)

\* The request's path is under /api/ and is neither of the two API routes.
UnmatchedApiPath ==
  /\ StartsWith(Get(fnArg).path, ApiSlash)
  /\ Get(fnArg).path \notin {HealthPath, StatePath}

(* C26. A GET request for a path under /api that matches no API route is   *)
(* eventually answered, in every variant, whether dist exists or not.      *)
C26_UnmatchedApiPathAnswered ==
  UnmatchedApiPath ~> IsSome(Get(fnOut).res)

----------------------------------------------------------------------------
(* Claims checked under SpecSnow *)

\* The snow indicator of entry i of FORECAST.daily of the snapshot built.
SnowOfDay(i) ==
  LET d == Get(fnOut).FORECAST.daily
  IN IF i <= Len(d) THEN d[i].snow ELSE 0

(* C28. SNOW depends on the first two entries of FORECAST.daily only: it   *)
(* is null exactly when their snow indicators sum to 0, as they do when    *)
(* the forecast failed or is empty; otherwise new24h is the indicator of   *)
(* the first entry, new48h the sum of the two, and                         *)
(* 0 <= new24h <= new48h <= 4 with new48h >= 1.                            *)
C28_SnowFromFirstTwoDays ==
  IsSome(fnOut)
    => LET snow == Get(fnOut).SNOW
       IN /\ snow = None <=> SnowOfDay(1) + SnowOfDay(2) = 0
          /\ (Get(fnArg).fails \/ Get(fnArg).periods = <<>>) => snow = None
          /\ snow # None
               => /\ Get(snow).new24h = SnowOfDay(1)
                  /\ Get(snow).new48h = SnowOfDay(1) + SnowOfDay(2)
                  /\ 0 <= Get(snow).new24h
                  /\ Get(snow).new24h <= Get(snow).new48h
                  /\ Get(snow).new48h <= 4
                  /\ Get(snow).new48h >= 1

\* No snow in the first day and night, snow in the second day, and again
\* in the third, which does not count: new24h is 0 and new48h is 1.
C28_Witness ==
  /\ IsSome(fnOut)
  /\ Len(Get(fnOut).FORECAST.daily) = 3
  /\ SnowOfDay(1) = 0 /\ SnowOfDay(2) = 1 /\ SnowOfDay(3) = 1
  /\ Get(fnOut).SNOW # None
  /\ Get(Get(fnOut).SNOW).new24h = 0
  /\ Get(Get(fnOut).SNOW).new48h = 1

----------------------------------------------------------------------------
(* Claims checked under SpecSize *)

(* C29. Whatever the size of the upstream feeds, the snapshot has at most  *)
(* 7 FORECAST.daily entries, 48 FORECAST.hourly entries, 6 WEATHER entries *)
(* and 10 ROADS.passes; CAMS is the two static cameras, in their fixed     *)
(* order, followed by at most 16 WSDOT cameras (24 in part_001), each with *)
(* an image URL.                                                           *)
C29_OutputSizesBounded ==
  IsSome(fnOut)
    => LET st == Get(fnOut)
           most == IF variant = "part_001" THEN 24 ELSE 16
       IN /\ Len(st.FORECAST.daily) <= 7
          /\ Len(st.FORECAST.hourly) <= 48
          /\ Len(st.WEATHER) <= 6
          /\ Len(st.ROADS.passes) <= 10
          /\ Len(st.CAMS) >= 2
          /\ Len(st.CAMS) <= 2 + most
          /\ st.CAMS[1] = [static |-> "crystal-summit-360"]
          /\ st.CAMS[2] = [static |-> "crystal-webcams"]
          /\ \A i \in 3..Len(st.CAMS) :
               "image" \in DOMAIN st.CAMS[i] /\ st.CAMS[i].image

\* Feeds of 50 usable entries each: every list of the snapshot is cut to
\* its limit.
C29_Witness ==
  /\ IsSome(fnOut)
  /\ Get(fnArg).n = 50
  /\ Get(fnArg).skip = 0
  /\ variant = "index"
  /\ Len(Get(fnOut).FORECAST.daily) = 7
  /\ Len(Get(fnOut).FORECAST.hourly) = 48
  /\ Len(Get(fnOut).WEATHER) = 6
  /\ Len(Get(fnOut).ROADS.passes) = 10
  /\ Len(Get(fnOut).CAMS) = 18

----------------------------------------------------------------------------
(* Claims checked under SpecFreeze *)

\* The series has both lists and they are equally long.
SeriesWellFormed ==
  /\ IsSome(Get(fnArg).time)
  /\ IsSome(Get(fnArg).freezing_level_height)
  /\ Len(Get(Get(fnArg).time)) = Len(Get(Get(fnArg).freezing_level_height))

\* The samples whose time is a string and whose value is a finite number.
CountedSamples ==
  { i \in 1..Len(Get(Get(fnArg).time)) :
      /\ IsSome(Get(Get(fnArg).time)[i])
      /\ Get(Get(fnArg).freezing_level_height)[i].kind = "num" }

DayOfSample(i) == Get(Get(Get(fnArg).time)[i])

CountedDays == { DayOfSample(i) : i \in CountedSamples }

\* The finite values of day d, in tenths of a metre.
ValuesOfDay(d) ==
  { Get(Get(fnArg).freezing_level_height)[i].tenths :
      i \in { j \in CountedSamples : DayOfSample(j) = d } }

(* C30. For a series with equally long time and value lists,               *)
(* FORECAST.freezing.daily has exactly one entry for each calendar day     *)
(* that has a finite value, in strictly ascending order of date, max_m and *)
(* min_m being the largest and the smallest of that day's finite values    *)
(* (in whole metres), so min_m <= max_m; samples whose time is not a       *)
(* string or whose value is not a finite number are ignored; a series that *)
(* is missing or whose lists differ in length gives the empty list.        *)
C30_FreezingDailyPerDay ==
  IsSome(fnOut)
    => LET out == Get(fnOut)
       IN IF ~SeriesWellFormed THEN out = <<>>
          ELSE /\ { out[k].date : k \in 1..Len(out) } = CountedDays
               /\ Len(out) = Cardinality(CountedDays)
               /\ \A k \in 1..(Len(out) - 1) : out[k].date < out[k + 1].date
               /\ \A k \in 1..Len(out) :
                    /\ out[k].max_m = Round(SetMax(ValuesOfDay(out[k].date)))
                    /\ out[k].min_m = Round(SetMin(ValuesOfDay(out[k].date)))
                    /\ out[k].min_m <= out[k].max_m

====
